---- MODULE Spec2Model ----
(***************************************************************************)
(* A state-machine model of the Asteroids simulation loop.                 *)
(*                                                                         *)
(* Two variants of the main loop live in the repository and both are       *)
(* modelled; the variable `variant` says which one a behaviour runs:       *)
(*   "game" : src/src/managers/game_manager.py (class Game) with the       *)
(*            CollisionManager, PowerUpManager and the src/src/entities    *)
(*            classes;                                                      *)
(*   "main" : src/main.py (function main) with src/player.py and           *)
(*            src/asteroid.py.                                             *)
(*                                                                         *)
(* Units.  Time is in milliseconds (pygame's clock.tick returns integer    *)
(* milliseconds, the code divides by 1000), lengths are in pixels,         *)
(* velocities in pixels per second, so a move is velocity * dt / 1000.     *)
(* The ship's heading is counted in quarter turns: every frame time of     *)
(* DtSet is a multiple of 300 ms, and PLAYER_TURN_SPEED * 0.3 s = 90       *)
(* degrees, so headings stay axis aligned and all geometry is exact        *)
(* integer arithmetic.                                                     *)
(***************************************************************************)
EXTENDS Integers, Sequences, FiniteSets, TLC

\* ------------------------------------------------------------------------
\* Program constants (src/constants.py), times converted to milliseconds
\* ------------------------------------------------------------------------
SCREEN_WIDTH == 1280
SCREEN_HEIGHT == 720
ASTEROID_MIN_RADIUS == 20
ASTEROID_KINDS == 3
ASTEROID_SPAWN_RATE == 800
ASTEROID_MAX_RADIUS == ASTEROID_MIN_RADIUS * ASTEROID_KINDS
ASTEROID_BASE_SCORE == 100
PLAYER_RADIUS == 20
PLAYER_TURN_SPEED == 300
PLAYER_SPEED == 200
PLAYER_SHOOT_SPEED == 500
PLAYER_SHOOT_COOLDOWN == 300
SHOT_RADIUS == 5
SHOT_LIFETIME == 2000
DIFFICULTY_INCREASE_INTERVAL == 30000
SPAWN_RATE_FLOOR == 200
POWER_UP_RADIUS == 15
MIN_SPAWN_INTERVAL == 1000
MAX_SPAWN_INTERVAL == 3000
SPAWN_TRIES == 10
MIN_DISTANCE == 100

\* ------------------------------------------------------------------------
\* Bounds of the model
\* ------------------------------------------------------------------------
\* loop iterations (frames) of one behaviour
MaxFrames == 4
\* key events the event queue can hold in one frame
MaxEventsPerFrame == 2

\* frame times clock.tick can return (ms); multiples of 300
DtSet == {300, 3900, 30000}
\* key states pygame.key.get_pressed() can report
KeyChoices == {{}, {"K_SPACE"}}
\* seeds of the random source (the module `random`)
Seeds == {1, 2, 3}

GameStates == {"MENU", "PLAYING", "PAUSED", "GAME_OVER"}
PowerUpType == {"SHIELD", "TRIPLE_SHOT", "SPEED_BOOST"}

VARIABLES
    variant,            \* "game" or "main": which main loop runs
    pc,                 \* position in the loop iteration
    running,            \* Game.run: running
    frames,             \* loop iterations started (bounded by MaxFrames)
    nevents,            \* events handled in this frame
    dt,                 \* self.dt, ms
    current_game_state, \* GameState
    sprites,            \* id -> object (Player, AsteroidField, Asteroid, Shot, PowerUp)
    next_id,            \* next fresh object id
    updatable, drawable, asteroids, shots, power_ups,  \* sprite groups, in insertion order
    player,             \* self.player (an id)
    asteroid_field,     \* self.asteroid_field (an id)
    score,              \* collision_manager.score / main's score
    difficulty_level,
    difficulty_timer,
    pu_spawn_timer,     \* power_up_manager.spawn_timer
    floating_scores,    \* screens.floating_scores: live entries [x, y, value, age]
    rng,                \* the random source: its seed and how much each stream has drawn
    deaths,             \* "player_death" signals since the last reset_game
    last                \* what the last step did (a record, for observation)

vars == <<variant, pc, running, frames, nevents, dt, current_game_state, sprites,
          next_id, updatable, drawable, asteroids, shots, power_ups, player,
          asteroid_field, score, difficulty_level, difficulty_timer,
          pu_spawn_timer, floating_scores, rng, deaths, last>>

\* ------------------------------------------------------------------------
\* Arithmetic helpers
\* ------------------------------------------------------------------------
Abs(n) == IF n < 0 THEN -n ELSE n
Max(a, b) == IF a >= b THEN a ELSE b
Min(a, b) == IF a <= b THEN a ELSE b
\* velocity (px/s) times dt (ms), in px; exact for the model's velocities
\* (multiples of 10 px/s) and frame times (multiples of 300 ms)
Step(v, t) == (v * t) \div 1000
\* nearest multiple of 10 (the model's velocity grid)
Round10(n) == 10 * ((n + 5) \div 10)
SinQ(q) == CASE q % 4 = 0 -> 0 [] q % 4 = 1 -> 1 [] q % 4 = 2 -> 0 [] OTHER -> -1
CosQ(q) == CASE q % 4 = 0 -> 1 [] q % 4 = 1 -> 0 [] q % 4 = 2 -> -1 [] OTHER -> 0

\* ------------------------------------------------------------------------
\* CircleShape (src/circleshape.py)
\* ------------------------------------------------------------------------
\* a circle test that forgets the other shape's radius
CircleCheckCollisionOwnRadius(a, b) ==
    LET dx == a.x - b.x
        dy == a.y - b.y
    IN  /\ Abs(dx) <= a.radius
        /\ Abs(dy) <= a.radius
        /\ dx * dx + dy * dy <= a.radius * a.radius

\* CircleShape.check_collision: distance <= self.radius + other.radius.
\* The two range tests keep the squares inside TLC's integers; they do not
\* change the value (|dx| > R implies dx^2 + dy^2 > R^2).
CircleCheckCollision(a, b) ==
    LET R  == a.radius + b.radius
        dx == a.x - b.x
        dy == a.y - b.y
    IN  /\ Abs(dx) <= R
        /\ Abs(dy) <= R
        /\ dx * dx + dy * dy <= R * R

\* a wrap that re-enters at the screen edge instead of one radius outside it
WrapAxisToEdge(c, radius, extent) ==
    IF c < -radius THEN extent
    ELSE IF c > extent + radius THEN 0
    ELSE c

\* one axis of CircleShape.wrap_position
WrapAxis(c, radius, extent) ==
    IF c < -radius THEN extent + radius
    ELSE IF c > extent + radius THEN -radius
    ELSE c

\* CircleShape.wrap_position(SCREEN_WIDTH, SCREEN_HEIGHT)
WrapPosition(o) ==
    [o EXCEPT !.x = WrapAxis(o.x, o.radius, SCREEN_WIDTH),
              !.y = WrapAxis(o.y, o.radius, SCREEN_HEIGHT)]

\* ------------------------------------------------------------------------
\* Sprite groups (pygame.sprite.Group / Sprite as the code uses them)
\* ------------------------------------------------------------------------
Without(seq, id) == SelectSeq(seq, LAMBDA i : i # id)
Members(seq) == {seq[i] : i \in 1..Len(seq)}

\* The containers of each class: Game.__init__ (game) and main (main)
Containers(cls) ==
    CASE cls = "Player"        -> {"updatable", "drawable"}
      [] cls = "Asteroid"      -> {"asteroids", "updatable", "drawable"}
      [] cls = "AsteroidField" -> {"updatable"}
      [] cls = "Shot"          -> {"shots", "updatable", "drawable"}
      [] cls = "PowerUp"       -> {"power_ups", "updatable", "drawable"}

\* The world: the objects and the groups they are in
World == [sprites |-> sprites, next_id |-> next_id, updatable |-> updatable,
          drawable |-> drawable, asteroids |-> asteroids, shots |-> shots,
          power_ups |-> power_ups, rng |-> rng]

\* Sprite.__init__(self, containers): a new object joins its containers
AddSprite(w, obj) ==
    LET id == w.next_id
        c  == Containers(obj.cls)
        J(name, g) == IF name \in c THEN Append(g, id) ELSE g
    IN  [w EXCEPT !.sprites   = (id :> obj) @@ w.sprites,
                  !.next_id   = id + 1,
                  !.updatable = J("updatable", w.updatable),
                  !.drawable  = J("drawable", w.drawable),
                  !.asteroids = J("asteroids", w.asteroids),
                  !.shots     = J("shots", w.shots),
                  !.power_ups = J("power_ups", w.power_ups)]

\* a kill that takes the object out of its typed group only
KillTypedOnly(w, id) ==
    [w EXCEPT !.asteroids = Without(w.asteroids, id),
              !.shots     = Without(w.shots, id),
              !.power_ups = Without(w.power_ups, id)]

\* Sprite.kill(): the object leaves every group it is in
Kill(w, id) ==
    [w EXCEPT !.sprites   = [i \in (DOMAIN w.sprites) \ {id} |-> w.sprites[i]],
              !.updatable = Without(w.updatable, id),
              !.drawable  = Without(w.drawable, id),
              !.asteroids = Without(w.asteroids, id),
              !.shots     = Without(w.shots, id),
              !.power_ups = Without(w.power_ups, id)]

SetSprite(w, id, obj) == [w EXCEPT !.sprites[id] = obj]

\* ------------------------------------------------------------------------
\* Shot (src/src/entities/shot.py)
\* ------------------------------------------------------------------------
\* Shot.__init__ followed by the caller's `shot.velocity = velocity`
NewShot(x, y, vx, vy) ==
    [cls |-> "Shot", x |-> x, y |-> y, vx |-> vx, vy |-> vy,
     radius |-> SHOT_RADIUS, lifetime |-> SHOT_LIFETIME]

\* Shot.update: the object after the update (the kill is ShotExpired)
ShotUpdate(s, t) ==
    WrapPosition([s EXCEPT !.x = s.x + Step(s.vx, t),
                           !.y = s.y + Step(s.vy, t),
                           !.lifetime = s.lifetime - t])
\* a shot that is only removed once its lifetime is below zero
ShotExpiredLate(s) == s.lifetime < 0

\* Shot.update: `if self.lifetime <= 0: self.kill()`
ShotExpired(s) == s.lifetime <= 0

\* ------------------------------------------------------------------------
\* Asteroid (src/src/entities/asteroid.py, src/asteroid.py)
\* ------------------------------------------------------------------------
NewAsteroid(x, y, radius, vx, vy) ==
    [cls |-> "Asteroid", x |-> x, y |-> y, vx |-> vx, vy |-> vy, radius |-> radius]

\* Asteroid.update: game moves and wraps, main only moves
AsteroidUpdate(a, t) ==
    LET moved == [a EXCEPT !.x = a.x + Step(a.vx, t), !.y = a.y + Step(a.vy, t)]
    IN  IF variant = "game" THEN WrapPosition(moved) ELSE moved

\* The random source.  Every seed fixes the values each stream of draws
\* returns, in order and cyclically; rng holds the seed and how many draws
\* each stream has made (modulo the length of its tape).
\* split: random.uniform(20, 50) of Asteroid.split, as <<cos, sin, hypotenuse>>
\* of a Pythagorean triple (36.87 and 22.62 degrees)
AngleTape(seed) ==
    CASE seed = 1 -> << <<4, 3, 5>> >>
      [] seed = 2 -> << <<12, 5, 13>>, <<4, 3, 5>> >>
      [] OTHER    -> << <<4, 3, 5>>, <<12, 5, 13>> >>
\* spawn: the draws of one AsteroidField.update that spawns: the edge,
\* random.randint(40, 100), random.uniform(0, 1) in percent, and the kind
\* out of random.randint(1, ASTEROID_KINDS)
SpawnTape(seed) ==
    CASE seed = 1 -> << [edge |-> 3, base_speed |-> 100, frac |-> 50, kind |-> ASTEROID_KINDS] >>
      [] seed = 2 -> << [edge |-> 3, base_speed |-> 100, frac |-> 50, kind |-> 1],
                        [edge |-> 4, base_speed |-> 100, frac |-> 50, kind |-> 2] >>
      [] OTHER    -> << [edge |-> 3, base_speed |-> 100, frac |-> 50, kind |-> 2],
                        [edge |-> 1, base_speed |-> 100, frac |-> 50, kind |-> ASTEROID_KINDS] >>
\* pos: the candidate positions of PowerUp.spawn_random
PosTape(seed) ==
    CASE seed = 1 -> << <<523, 360>> >>
      [] seed = 2 -> << <<640, 340>>, <<640, 200>> >>
      [] seed = 4 -> << <<60, 60>>, <<640, 200>> >>
      [] OTHER    -> << <<640, 340>> >>
\* pu: the draws of PowerUp.__init__: type, velocity, lifetime
PuTape(seed) ==
    CASE seed = 1 -> << [type |-> "SHIELD", vx |-> 30, vy |-> 0, lifetime |-> 5000] >>
      [] seed = 2 -> << [type |-> "TRIPLE_SHOT", vx |-> 0, vy |-> 30, lifetime |-> 5000],
                        [type |-> "SPEED_BOOST", vx |-> 30, vy |-> 0, lifetime |-> 10000] >>
      [] OTHER    -> << [type |-> "SPEED_BOOST", vx |-> 0, vy |-> 30, lifetime |-> 10000],
                        [type |-> "SHIELD", vx |-> 30, vy |-> 0, lifetime |-> 5000] >>
\* interval: random.uniform(min_spawn_interval, max_spawn_interval)
IntervalTape(seed) ==
    CASE seed = 1 -> << MIN_SPAWN_INTERVAL >>
      [] seed = 2 -> << MAX_SPAWN_INTERVAL, MIN_SPAWN_INTERVAL >>
      [] OTHER    -> << MAX_SPAWN_INTERVAL >>

NewRandom(seed) == [seed |-> seed, split |-> 0, spawn |-> 0, pos |-> 0, pu |-> 0,
                    interval |-> 0]
\* the value a stream returns after n more draws, and the source after one draw
Peek(tape, count, n) == tape[((count + n) % Len(tape)) + 1]
Advance(tape, count, n) == (count + n) % Len(tape)

\* velocity.rotate(+-angle) * 1.2, on the model's velocity grid
ChildVelocity(vx, vy, ang, sign) ==
    LET c == ang[1]
        s == sign * ang[2]
        h == ang[3]
    IN  <<Round10((12 * (vx * c - vy * s)) \div (10 * h)),
          Round10((12 * (vx * s + vy * c)) \div (10 * h))>>

\* children as big as their parent
ChildRadiusKept(radius) == radius

\* the radius of the two children of Asteroid.split
ChildRadius(radius) == radius - ASTEROID_MIN_RADIUS

\* a split that only stops at radius zero
SplitStopsAtZero(radius) == radius <= 0

\* `if self.radius <= ASTEROID_MIN_RADIUS: return False`
SplitStops(radius) == radius <= ASTEROID_MIN_RADIUS

\* Asteroid.split (both variants): kill self, then two children at the
\* parent's position unless the radius is minimal
Split(w, id) ==
    LET a   == w.sprites[id]
        w1  == Kill(w, id)
        ang == Peek(AngleTape(w.rng.seed), w.rng.split, 0)
        w2  == [w1 EXCEPT !.rng.split = Advance(AngleTape(w.rng.seed), w.rng.split, 1)]
        v1  == ChildVelocity(a.vx, a.vy, ang, 1)
        v2  == ChildVelocity(a.vx, a.vy, ang, -1)
    IN  IF SplitStops(a.radius) THEN w1
        ELSE AddSprite(AddSprite(w2,
                 NewAsteroid(a.x, a.y, ChildRadius(a.radius), v1[1], v1[2])),
                 NewAsteroid(a.x, a.y, ChildRadius(a.radius), v2[1], v2[2]))

\* ------------------------------------------------------------------------
\* AsteroidField (src/src/managers/asteroid_manager.py)
\* ------------------------------------------------------------------------
NewAsteroidField ==
    [cls |-> "AsteroidField", spawn_timer |-> 0, spawn_rate |-> ASTEROID_SPAWN_RATE,
     speed_multiplier |-> 10]

\* AsteroidField.edges: <<normal, position(fraction)>>
EdgeNormal(e) ==
    CASE e = 1 -> <<1, 0>> [] e = 2 -> <<-1, 0>> [] e = 3 -> <<0, 1>> [] e = 4 -> <<0, -1>>
EdgePosition(e, f) ==
    CASE e = 1 -> <<-ASTEROID_MAX_RADIUS, (f * SCREEN_HEIGHT) \div 100>>
      [] e = 2 -> <<SCREEN_WIDTH + ASTEROID_MAX_RADIUS, (f * SCREEN_HEIGHT) \div 100>>
      [] e = 3 -> <<(f * SCREEN_WIDTH) \div 100, -ASTEROID_MAX_RADIUS>>
      [] e = 4 -> <<(f * SCREEN_WIDTH) \div 100, SCREEN_HEIGHT + ASTEROID_MAX_RADIUS>>

\* `if self.spawn_timer > self.spawn_rate`
SpawnDue(timer, rate) == timer > rate

\* a spawner whose kinds are one unit too big
SpawnRadiusOversize(kind) == ASTEROID_MIN_RADIUS * (kind + 1)

\* the radius of a spawned asteroid: ASTEROID_MIN_RADIUS * kind
SpawnRadius(kind) == ASTEROID_MIN_RADIUS * kind

\* AsteroidField.update: the field after the update
FieldUpdate(f, t) ==
    IF SpawnDue(f.spawn_timer + t, f.spawn_rate)
    THEN [f EXCEPT !.spawn_timer = 0]
    ELSE [f EXCEPT !.spawn_timer = f.spawn_timer + t]

\* AsteroidField.update: the asteroid it spawns (velocity rotated by 0 degrees,
\* the one value of random.randint(-30, 30) the model draws)
FieldSpawn(f, d) ==
    LET speed == (d.base_speed * f.speed_multiplier) \div 10
        n     == EdgeNormal(d.edge)
        p     == EdgePosition(d.edge, d.frac)
    IN  NewAsteroid(p[1], p[2], SpawnRadius(d.kind), n[1] * speed, n[2] * speed)

\* ------------------------------------------------------------------------
\* Player (src/src/entities/player.py for game, src/player.py for main)
\* ------------------------------------------------------------------------
\* Player.SPEED_BOOST_MULTIPLIER = 1.8, in tenths
SPEED_BOOST_MULTIPLIER == 18
\* 500 * cos(15 degrees) and 500 * sin(15 degrees) on the velocity grid
TRIPLE_COS == 480
TRIPLE_SIN == 130

\* Player.__init__; `angle` is in quarter turns (main: self.rotation)
NewPlayer(x, y) ==
    [cls |-> "Player", x |-> x, y |-> y, radius |-> PLAYER_RADIUS, angle |-> 0,
     shoot_cooldown |-> 0, active_power_ups |-> << >>,
     has_shield |-> FALSE, has_triple_shot |-> FALSE, has_speed_boost |-> FALSE]

\* game: direction = (sin angle, -cos angle); main: Vector2(0, 1).rotate(rotation)
Direction(p) ==
    IF variant = "game" THEN <<SinQ(p.angle), -CosQ(p.angle)>>
    ELSE <<-SinQ(p.angle), CosQ(p.angle)>>

\* quarter turns turned in t ms at PLAYER_TURN_SPEED degrees per second
QuarterTurns(t) == (PLAYER_TURN_SPEED * t) \div 90000

\* Player.remove_power_up
\* a remove_power_up that drops the timer and leaves the behaviour flag set
RemovePowerUpMapOnly(p, kind) ==
    [p EXCEPT !.active_power_ups =
                  [k \in (DOMAIN p.active_power_ups) \ {kind} |-> p.active_power_ups[k]]]

RemovePowerUp(p, kind) ==
    [p EXCEPT !.active_power_ups =
                  [k \in (DOMAIN p.active_power_ups) \ {kind} |-> p.active_power_ups[k]],
              !.has_shield = IF kind = "SHIELD" THEN FALSE ELSE p.has_shield,
              !.has_triple_shot = IF kind = "TRIPLE_SHOT" THEN FALSE ELSE p.has_triple_shot,
              !.has_speed_boost = IF kind = "SPEED_BOOST" THEN FALSE ELSE p.has_speed_boost]

\* an add_power_up that starts the timer and forgets the behaviour flag
AddPowerUpTimerOnly(p, kind, duration) ==
    [p EXCEPT !.active_power_ups =
                  [k \in (DOMAIN p.active_power_ups) \cup {kind} |->
                      IF k = kind THEN duration ELSE p.active_power_ups[k]]]

\* an add_power_up that stacks the new duration on the time left
AddPowerUpStacked(p, kind, duration) ==
    [p EXCEPT !.active_power_ups =
                  [k \in (DOMAIN p.active_power_ups) \cup {kind} |->
                      IF k # kind THEN p.active_power_ups[k]
                      ELSE IF k \in DOMAIN p.active_power_ups
                           THEN p.active_power_ups[k] + duration
                           ELSE duration],
              !.has_shield = IF kind = "SHIELD" THEN TRUE ELSE p.has_shield,
              !.has_triple_shot = IF kind = "TRIPLE_SHOT" THEN TRUE ELSE p.has_triple_shot,
              !.has_speed_boost = IF kind = "SPEED_BOOST" THEN TRUE ELSE p.has_speed_boost]

\* Player.add_power_up
AddPowerUp(p, kind, duration) ==
    [p EXCEPT !.active_power_ups =
                  [k \in (DOMAIN p.active_power_ups) \cup {kind} |->
                      IF k = kind THEN duration ELSE p.active_power_ups[k]],
              !.has_shield = IF kind = "SHIELD" THEN TRUE ELSE p.has_shield,
              !.has_triple_shot = IF kind = "TRIPLE_SHOT" THEN TRUE ELSE p.has_triple_shot,
              !.has_speed_boost = IF kind = "SPEED_BOOST" THEN TRUE ELSE p.has_speed_boost]

\* an update_power_ups that keeps an effect whose time left is exactly zero
UpdatePowerUpsLate(p, t) ==
    LET left    == [k \in DOMAIN p.active_power_ups |-> p.active_power_ups[k] - t]
        expired == {k \in DOMAIN left : left[k] < 0}
    IN  [p EXCEPT !.active_power_ups = [k \in (DOMAIN left) \ expired |-> left[k]],
                  !.has_shield = IF "SHIELD" \in expired THEN FALSE ELSE p.has_shield,
                  !.has_triple_shot =
                      IF "TRIPLE_SHOT" \in expired THEN FALSE ELSE p.has_triple_shot,
                  !.has_speed_boost =
                      IF "SPEED_BOOST" \in expired THEN FALSE ELSE p.has_speed_boost]

\* Player.update_power_ups
UpdatePowerUps(p, t) ==
    LET left    == [k \in DOMAIN p.active_power_ups |-> p.active_power_ups[k] - t]
        expired == {k \in DOMAIN left : left[k] <= 0}
    IN  [p EXCEPT !.active_power_ups = [k \in (DOMAIN left) \ expired |-> left[k]],
                  !.has_shield = IF "SHIELD" \in expired THEN FALSE ELSE p.has_shield,
                  !.has_triple_shot =
                      IF "TRIPLE_SHOT" \in expired THEN FALSE ELSE p.has_triple_shot,
                  !.has_speed_boost =
                      IF "SPEED_BOOST" \in expired THEN FALSE ELSE p.has_speed_boost]

\* Player.has_active_shield
HasActiveShield(p) == p.has_shield

\* Player.rotate (game: left adds, right subtracts; main: left subtracts)
Rotate(p, keys, t) ==
    LET l == IF "K_LEFT" \in keys THEN QuarterTurns(t) ELSE 0
        r == IF "K_RIGHT" \in keys THEN QuarterTurns(t) ELSE 0
    IN  [p EXCEPT !.angle = IF variant = "game" THEN (p.angle + l - r) % 4
                            ELSE (p.angle - l + r) % 4]

\* Player.move(t): t may be negative (backwards)
Move(p, t) ==
    LET d     == Direction(p)
        speed == IF variant = "game" /\ p.has_speed_boost
                 THEN (PLAYER_SPEED * SPEED_BOOST_MULTIPLIER) \div 10
                 ELSE PLAYER_SPEED
    IN  [p EXCEPT !.x = p.x + d[1] * Step(speed, t), !.y = p.y + d[2] * Step(speed, t)]

\* the moves of Player.update for the movement keys
MoveKeys(p, keys, t) ==
    LET f == IF "K_UP" \in keys THEN Move(p, t) ELSE p
    IN  IF "K_DOWN" \in keys THEN Move(f, -t) ELSE f

\* a volley that ignores the triple-shot effect
VolleySingle(p) ==
    <<NewShot(p.x, p.y, Direction(p)[1] * PLAYER_SHOOT_SPEED,
              Direction(p)[2] * PLAYER_SHOOT_SPEED)>>

\* Player.shoot / Player._create_shot: the shots one volley creates, in order
Volley(p) ==
    LET d == Direction(p)
        centre == NewShot(p.x, p.y, d[1] * PLAYER_SHOOT_SPEED, d[2] * PLAYER_SHOOT_SPEED)
        \* pygame's Vector2.rotate(a): (x cos a - y sin a, x sin a + y cos a)
        side(sg) == NewShot(p.x, p.y, d[1] * TRIPLE_COS - d[2] * sg * TRIPLE_SIN,
                                      d[1] * sg * TRIPLE_SIN + d[2] * TRIPLE_COS)
    IN  IF variant = "game" /\ p.has_triple_shot
        THEN <<side(-1), centre, side(1)>>
        ELSE <<centre>>

\* a shoot() that returns early while the cooldown runs
ShootPassesGuarded(p) == p.shoot_cooldown <= 0

\* does shoot() get past its own guard?  main: `if self.shoot_cooldown > 0:
\* return`; game: shoot() has no guard (the test is in Player.update)
ShootPasses(p) == IF variant = "game" THEN TRUE ELSE p.shoot_cooldown <= 0

\* does Player.update call shoot()?  game: `keys[K_SPACE] and
\* self.shoot_cooldown <= 0`; main: `keys[K_SPACE]`
CallsShoot(p, keys) ==
    /\ "K_SPACE" \in keys
    /\ variant = "game" => p.shoot_cooldown <= 0

\* shoot() called on its own: the shots it creates
ShootShots(p) == IF ShootPasses(p) THEN Volley(p) ELSE << >>

\* shoot() called on its own: the player after it (main resets the cooldown
\* in shoot(); game leaves that to Player.update)
ShootPlayer(p) ==
    IF variant = "main" /\ ShootPasses(p)
    THEN [p EXCEPT !.shoot_cooldown = PLAYER_SHOOT_COOLDOWN]
    ELSE p

\* does this update fire?
Fires(p, keys) == CallsShoot(p, keys) /\ ShootPasses(p)

\* the cooldown countdown of Player.update
\* a cooldown that runs down twice as fast as the frame time
CountdownDouble(p, t) == p.shoot_cooldown - 2 * t

Countdown(p, t) ==
    IF variant = "game"
    THEN (IF p.shoot_cooldown > 0 THEN p.shoot_cooldown - t ELSE p.shoot_cooldown)
    ELSE p.shoot_cooldown - t

\* Player.update, up to the shot: power-up timers, cooldown, rotation, movement
PlayerBeforeShot(p, keys, t) ==
    LET p1 == IF variant = "game" THEN UpdatePowerUps(p, t) ELSE p
        p2 == [p1 EXCEPT !.shoot_cooldown = Countdown(p1, t)]
    IN  MoveKeys(Rotate(p2, keys, t), keys, t)

\* Player.update: the player after the update
PlayerUpdate(p, keys, t) ==
    LET q == PlayerBeforeShot(p, keys, t)
    IN  WrapPosition(IF Fires(q, keys)
                     THEN [q EXCEPT !.shoot_cooldown = PLAYER_SHOOT_COOLDOWN]
                     ELSE q)

\* Player.update: the shots it creates
PlayerShots(p, keys, t) ==
    LET q == PlayerBeforeShot(p, keys, t)
    IN  IF Fires(q, keys) THEN Volley(q) ELSE << >>

\* Player.ship_vertices / collision_polygon: nose, left wing, rear centre,
\* right wing (radius * 1.2, 0.5, 0.8 are whole numbers for PLAYER_RADIUS)
CollisionPolygon(p) ==
    LET f  == Direction(p)
        r  == <<f[2], -f[1]>>
        n  == (p.radius * 12) \div 10
        h  == (p.radius * 5) \div 10
        e  == (p.radius * 8) \div 10
    IN  << <<p.x + f[1] * n, p.y + f[2] * n>>,
           <<p.x - f[1] * h - r[1] * e, p.y - f[2] * h - r[2] * e>>,
           <<p.x - f[1] * e, p.y - f[2] * e>>,
           <<p.x - f[1] * h + r[1] * e, p.y - f[2] * h + r[2] * e>> >>

\* Player._circle_intersects_line: the distance from the circle's centre to
\* the closest point of the segment is <= the radius.  With d = p2 - p1,
\* m = |d|^2 and s = (c - p1).d the closest point is p1 + clamp(s/m, 0, 1) d;
\* the comparison is made on squares, without the division.  The range test
\* keeps the products inside TLC's integers and does not change the value
\* (the segment is shorter than 50 and the radius at most 60).
CircleIntersectsLine(cx, cy, cr, p1, p2) ==
    LET dx == p2[1] - p1[1]
        dy == p2[2] - p1[2]
        ex == cx - p1[1]
        ey == cy - p1[2]
        m  == dx * dx + dy * dy
        s  == ex * dx + ey * dy
        fx == cx - p2[1]
        fy == cy - p2[2]
    IN  /\ Abs(ex) <= 150
        /\ Abs(ey) <= 150
        /\ IF s <= 0 \/ m = 0 THEN ex * ex + ey * ey <= cr * cr
           ELSE IF s >= m THEN fx * fx + fy * fy <= cr * cr
           ELSE m * (ex * ex + ey * ey) - s * s <= cr * cr * m

\* one edge of the ray casting of Player._point_in_polygon: does the edge
\* from a to b cross the ray from the point to the right?
RayCrosses(px, py, a, b) ==
    /\ (a[2] > py) # (b[2] > py)
    /\ IF b[2] - a[2] > 0
       THEN (px - a[1]) * (b[2] - a[2]) < (b[1] - a[1]) * (py - a[2])
       ELSE (px - a[1]) * (b[2] - a[2]) > (b[1] - a[1]) * (py - a[2])

\* Player._point_in_polygon: an odd number of crossings
PointInPolygon(px, py, poly) ==
    LET n == Len(poly)
        crossing == {i \in 1..n : RayCrosses(px, py, poly[i], poly[(i % n) + 1])}
    IN  Cardinality(crossing) % 2 = 1

\* Player.check_collision(other): the bounding circle with a shield (and in
\* main, which has no override), the reduced polygon without
PlayerCheckCollision(p, o) ==
    IF variant = "main" \/ p.has_shield THEN CircleCheckCollision(p, o)
    ELSE LET poly == CollisionPolygon(p)
             n    == Len(poly)
         IN  \/ \E i \in 1..n :
                    CircleIntersectsLine(o.x, o.y, o.radius, poly[i], poly[(i % n) + 1])
             \/ PointInPolygon(o.x, o.y, poly)

\* a.check_collision(b): Player overrides CircleShape.check_collision (game)
CheckCollision(a, b) ==
    IF a.cls = "Player" THEN PlayerCheckCollision(a, b) ELSE CircleCheckCollision(a, b)

\* ------------------------------------------------------------------------
\* PowerUp (src/src/entities/power_up.py)
\* ------------------------------------------------------------------------
\* PowerUp.DURATION, ms
Duration(kind) ==
    CASE kind = "SHIELD" -> 10000 [] kind = "TRIPLE_SHOT" -> 5000 [] kind = "SPEED_BOOST" -> 7000

\* PowerUp.__init__ with its random draws: type, velocity, lifetime
NewPowerUp(x, y, d) ==
    [cls |-> "PowerUp", x |-> x, y |-> y, vx |-> d.vx, vy |-> d.vy,
     radius |-> POWER_UP_RADIUS, type |-> d.type, duration |-> Duration(d.type),
     lifetime |-> d.lifetime]

\* PowerUp.update: the object after the update (the kill is PowerUpExpired)
PowerUpUpdate(u, t) ==
    WrapPosition([u EXCEPT !.x = u.x + Step(u.vx, t),
                           !.y = u.y + Step(u.vy, t),
                           !.lifetime = u.lifetime - t])
PowerUpExpired(u) == u.lifetime <= 0

\* ------------------------------------------------------------------------
\* updatable.update(dt): every sprite of the group, in group order; sprites
\* created during the call are not in the snapshot being iterated
\* ------------------------------------------------------------------------
\* an update that removes the asteroids that leave the screen; the field
\* spawns as it does, the other objects are left alone
UpdateOneCulling(w, id, t, keys) ==
    LET o == w.sprites[id]
    IN  CASE o.cls = "Asteroid" ->
               LET moved == [o EXCEPT !.x = o.x + Step(o.vx, t),
                                      !.y = o.y + Step(o.vy, t)]
               IN  IF WrapPosition(moved) # moved THEN Kill(w, id)
                   ELSE SetSprite(w, id, moved)
          [] o.cls = "AsteroidField" ->
               LET w1 == SetSprite(w, id, FieldUpdate(o, t))
                   d  == Peek(SpawnTape(w.rng.seed), w.rng.spawn, 0)
               IN  IF SpawnDue(o.spawn_timer + t, o.spawn_rate)
                   THEN AddSprite([w1 EXCEPT !.rng.spawn =
                                       Advance(SpawnTape(w.rng.seed), w.rng.spawn, 1)],
                                  FieldSpawn(o, d))
                   ELSE w1
          [] OTHER -> w

UpdateOne(w, id, t, keys) ==
    LET o == w.sprites[id]
    IN  CASE o.cls = "Player" ->
               LET ss == PlayerShots(o, keys, t)
                   w1 == SetSprite(w, id, PlayerUpdate(o, keys, t))
                   w2 == IF Len(ss) >= 1 THEN AddSprite(w1, ss[1]) ELSE w1
                   w3 == IF Len(ss) >= 2 THEN AddSprite(w2, ss[2]) ELSE w2
               IN  IF Len(ss) >= 3 THEN AddSprite(w3, ss[3]) ELSE w3
          [] o.cls = "AsteroidField" ->
               LET w1 == SetSprite(w, id, FieldUpdate(o, t))
                   d  == Peek(SpawnTape(w.rng.seed), w.rng.spawn, 0)
               IN  IF SpawnDue(o.spawn_timer + t, o.spawn_rate)
                   THEN AddSprite([w1 EXCEPT !.rng.spawn =
                                       Advance(SpawnTape(w.rng.seed), w.rng.spawn, 1)],
                                  FieldSpawn(o, d))
                   ELSE w1
          [] o.cls = "Asteroid" -> SetSprite(w, id, AsteroidUpdate(o, t))
          [] o.cls = "Shot" ->
               IF ShotExpired(ShotUpdate(o, t)) THEN Kill(w, id)
               ELSE SetSprite(w, id, ShotUpdate(o, t))
          [] o.cls = "PowerUp" ->
               IF PowerUpExpired(PowerUpUpdate(o, t)) THEN Kill(w, id)
               ELSE SetSprite(w, id, PowerUpUpdate(o, t))

RECURSIVE UpdateGroup(_, _, _, _)
UpdateGroup(w, ids, t, keys) ==
    IF ids = << >> THEN w
    ELSE UpdateGroup(IF Head(ids) \in DOMAIN w.sprites
                     THEN UpdateOne(w, Head(ids), t, keys) ELSE w,
                     Tail(ids), t, keys)

\* ------------------------------------------------------------------------
\* CollisionManager (src/src/managers/collision_manager.py)
\* ------------------------------------------------------------------------
\* a pass that takes the first obstacle of the group, colliding or not
FirstHitHead(w, p, ids) == IF ids = << >> THEN 0 ELSE Head(ids)

\* the first asteroid of the group, in iteration order, the player collides
\* with; 0 when there is none
RECURSIVE FirstHit(_, _, _)
FirstHit(w, p, ids) ==
    IF ids = << >> THEN 0
    ELSE IF PlayerCheckCollision(p, w.sprites[Head(ids)]) THEN Head(ids)
    ELSE FirstHit(w, p, Tail(ids))

\* a shield branch that leaves the effect on the ship
ShieldKept(p) == p

\* the shield branch of check_player_asteroid_collisions: what it does to
\* the player
ShieldAbsorb(p) == RemovePowerUp(p, "SHIELD")

\* an award with the wrong sign
ScoreValueDeducted(radius) == 0 - (ASTEROID_BASE_SCORE * ASTEROID_MIN_RADIUS) \div radius

\* `score_value = int(ASTEROID_BASE_SCORE / (asteroid.radius / ASTEROID_MIN_RADIUS))`
ScoreValue(radius) == (ASTEROID_BASE_SCORE * ASTEROID_MIN_RADIUS) \div radius

\* main: `ASTEROID_BASE_SCORE * (asteroid.radius // ASTEROID_MIN_RADIUS)`
MainScoreValue(radius) == ASTEROID_BASE_SCORE * (radius \div ASTEROID_MIN_RADIUS)

\* a feedback event that takes the position of the screen's origin
AddFloatingScoreOrigin(fs, a, value) ==
    Append(fs, [x |-> 0, y |-> 0, value |-> value, age |-> 0])

\* screens.add_floating_score(position, value): the list gets a copy of the
\* position (pygame.Vector2(position)) and the value; `age` stands for
\* time.time() - created_time
\* an add_floating_score that shows every award twice
AddFloatingScoreTwice(fs, a, value) ==
    fs \o <<[x |-> a.x, y |-> a.y, value |-> value, age |-> 0],
            [x |-> a.x, y |-> a.y, value |-> value, age |-> 0]>>

AddFloatingScore(fs, a, value) ==
    Append(fs, [x |-> a.x, y |-> a.y, value |-> value, age |-> 0])

\* "lifetime": 1.5 and "velocity": Vector2(0, -50) of a floating score
FLOATING_LIFETIME == 1500
FLOATING_SPEED == 50

\* screens.update_floating_scores(dt): every entry drifts upwards, then the
\* expired ones are popped
UpdateFloatingScores(fs, t) ==
    LET moved == [i \in 1..Len(fs) |-> [fs[i] EXCEPT !.y = @ + Step(-FLOATING_SPEED, t)]]
        Fresh(e) == ~(e.age > FLOATING_LIFETIME)
    IN  SelectSeq(moved, Fresh)

\* the wall clock moves on by t
AgeFloatingScores(fs, t) == [i \in 1..Len(fs) |-> [fs[i] EXCEPT !.age = @ + t]]

\* the first asteroid of the group a shot collides with; 0 when there is none
RECURSIVE FirstTarget(_, _, _)
FirstTarget(w, s, ids) ==
    IF ids = << >> THEN 0
    ELSE IF CircleCheckCollision(s, w.sprites[Head(ids)]) THEN Head(ids)
    ELSE FirstTarget(w, s, Tail(ids))

\* the state a collision pass threads through its loops
Pass(w) == [w |-> w, score |-> score, fs |-> floating_scores, kills |-> << >>]

\* what one execution of the body below did, read off the states before
\* (st) and after (w1, score1, fs1) it: the asteroid as it was, the asteroids
\* that are new, what is gone, the score and the feedback events
Observed(st, sid, aid, w1, score1, fs1) ==
    LET a      == st.w.sprites[aid]
        IsNew(i) == i \notin DOMAIN st.w.sprites
        new    == SelectSeq(w1.asteroids, IsNew)
    IN  [shot |-> sid, asteroid |-> aid, radius |-> a.radius, x |-> a.x, y |-> a.y,
         children |-> [i \in 1..Len(new) |->
                          [radius |-> w1.sprites[new[i]].radius,
                           x |-> w1.sprites[new[i]].x, y |-> w1.sprites[new[i]].y]],
         asteroid_gone |-> aid \notin DOMAIN w1.sprites /\ aid \notin Members(w1.asteroids),
         shot_gone |-> sid \notin DOMAIN w1.sprites /\ sid \notin Members(w1.shots),
         award |-> score1 - st.score,
         events |-> SubSeq(fs1, Len(st.fs) + 1, Len(fs1))]

\* a body that splits the asteroid and leaves the shot in its groups
ShotKillKeepsShot(st, sid, aid, value) ==
    LET a  == st.w.sprites[aid]
        w1 == Split(st.w, aid)
        fs == AddFloatingScore(st.fs, a, value)
    IN  [w     |-> w1,
         score |-> st.score + value,
         fs    |-> fs,
         kills |-> Append(st.kills, Observed(st, sid, aid, w1, st.score + value, fs))]

\* the body of `if shot.check_collision(asteroid):` for shot sid, asteroid aid
ShotKill(st, sid, aid, value) ==
    LET a  == st.w.sprites[aid]
        w1 == Kill(Split(st.w, aid), sid)
        fs == AddFloatingScore(st.fs, a, value)
    IN  [w     |-> w1,
         score |-> st.score + value,
         fs    |-> fs,
         kills |-> Append(st.kills, Observed(st, sid, aid, w1, st.score + value, fs))]

\* check_shot_asteroid_collisions: `for shot in shots: for asteroid in
\* asteroids: ... break`; the outer snapshot is taken once, the inner one
\* for every shot
RECURSIVE ShotLoop(_, _)
ShotLoop(st, sids) ==
    IF sids = << >> THEN st
    ELSE LET sid == Head(sids)
             aid == FirstTarget(st.w, st.w.sprites[sid], st.w.asteroids)
         IN  ShotLoop(IF aid = 0 THEN st
                      ELSE ShotKill(st, sid, aid,
                                    ScoreValue(st.w.sprites[aid].radius)),
                      Tail(sids))

\* main's collision loop: `for asteroid in asteroids: ... for bullet in
\* shots: ... break`; the first bullet of the group that hits the asteroid
RECURSIVE FirstBullet(_, _, _)
FirstBullet(w, a, sids) ==
    IF sids = << >> THEN 0
    ELSE IF CircleCheckCollision(w.sprites[Head(sids)], a) THEN Head(sids)
    ELSE FirstBullet(w, a, Tail(sids))

\* the first asteroid of the snapshot that a bullet hits; 0 when there is none
RECURSIVE FirstStruck(_, _)
FirstStruck(w, aids) ==
    IF aids = << >> THEN 0
    ELSE IF FirstBullet(w, w.sprites[Head(aids)], w.shots) # 0 THEN Head(aids)
    ELSE FirstStruck(w, Tail(aids))

\* the asteroids the loop gets to.  The body of `if
\* bullet.check_collision(asteroid):` adds to the score and then calls
\* ui.add_floating_score, which src/ui.py does not define: the call raises
\* AttributeError and main() ends there, before asteroid.split() and
\* bullet.kill().  So the loop ends with the first asteroid struck.
RECURSIVE Reached(_, _)
Reached(aids, struck) ==
    IF aids = << >> THEN << >>
    ELSE IF Head(aids) = struck THEN <<struck>>
    ELSE <<Head(aids)>> \o Reached(Tail(aids), struck)

\* main: what the body does before the call that raises
MainKill(st, sid, aid, value) ==
    [w     |-> st.w,
     score |-> st.score + value,
     fs    |-> st.fs,
     kills |-> Append(st.kills, Observed(st, sid, aid, st.w, st.score + value, st.fs))]

\* main's collision loop over the snapshot
MainLoop(st, aids) ==
    LET aid == FirstStruck(st.w, aids)
    IN  IF aid = 0 THEN st
        ELSE MainKill(st, FirstBullet(st.w, st.w.sprites[aid], st.w.shots), aid,
                      MainScoreValue(st.w.sprites[aid].radius))

\* main: the number of asteroids of the snapshot the player collides with
\* (`current_game_state = GameState.GAME_OVER` runs once for each)
Hits(w, p, ids) ==
    Cardinality({i \in 1..Len(ids) : PlayerCheckCollision(p, w.sprites[ids[i]])})

\* ------------------------------------------------------------------------
\* PowerUpManager (src/src/managers/power_up_manager.py)
\* ------------------------------------------------------------------------
\* PowerUp.spawn_random: does a candidate pass `distance < min_distance:
\* continue`?  `if avoid_position:` is false for the zero vector
Accepted(c, ax, ay) ==
    \/ (ax = 0 /\ ay = 0)
    \/ Abs(c[1] - ax) >= MIN_DISTANCE
    \/ Abs(c[2] - ay) >= MIN_DISTANCE
    \/ (c[1] - ax) * (c[1] - ax) + (c[2] - ay) * (c[2] - ay) >= MIN_DISTANCE * MIN_DISTANCE

\* PowerUp.spawn_random: the number of candidates it draws.  Each of the
\* SPAWN_TRIES tries draws a candidate and returns it when accepted; when
\* every try drew a rejected candidate the fallback draws one more.
SpawnRandomDraws(r, ax, ay) ==
    LET ok == {i \in 1..SPAWN_TRIES : Accepted(Peek(PosTape(r.seed), r.pos, i - 1), ax, ay)}
    IN  IF ok = {} THEN SPAWN_TRIES + 1
        ELSE CHOOSE i \in ok : \A j \in ok : i <= j
\* PowerUp.spawn_random: the position it ends with
SpawnRandom(r, ax, ay) == Peek(PosTape(r.seed), r.pos, SpawnRandomDraws(r, ax, ay) - 1)

\* `self.power_ups.update(dt)`
RECURSIVE UpdatePowerUpGroup(_, _, _)
UpdatePowerUpGroup(w, ids, t) ==
    IF ids = << >> THEN w
    ELSE LET id == Head(ids)
             u  == PowerUpUpdate(w.sprites[id], t)
         IN  UpdatePowerUpGroup(IF PowerUpExpired(u) THEN Kill(w, id)
                                ELSE SetSprite(w, id, u),
                                Tail(ids), t)

\* `distance <= player.radius + power_up.radius * 1.2`
InCollectionRadius(p, u) ==
    LET R == p.radius + (u.radius * 12) \div 10
    IN  /\ Abs(p.x - u.x) <= R
        /\ Abs(p.y - u.y) <= R
        /\ (p.x - u.x) * (p.x - u.x) + (p.y - u.y) * (p.y - u.y) <= R * R

\* the collection loop `for power_up in list(self.power_ups)`
RECURSIVE CollectLoop(_, _, _)
CollectLoop(w, pid, ids) ==
    IF ids = << >> THEN w
    ELSE LET id == Head(ids)
             u  == w.sprites[id]
             p  == w.sprites[pid]
         IN  CollectLoop(IF InCollectionRadius(p, u)
                         THEN Kill(SetSprite(w, pid, AddPowerUp(p, u.type, u.duration)), id)
                         ELSE w,
                         pid, Tail(ids))

\* `if self.spawn_timer <= 0` after `self.spawn_timer -= dt`
PickupDue(timer, t) == timer - t <= 0

\* PowerUpManager.spawn_power_up(avoid_position): the world with the pickup,
\* and the next interval drawn
SpawnPowerUp(w, ax, ay) ==
    LET r   == w.rng
        pos == SpawnRandom(r, ax, ay)
        d   == Peek(PuTape(r.seed), r.pu, 0)
        r1  == [r EXCEPT !.pos = Advance(PosTape(r.seed), r.pos, SpawnRandomDraws(r, ax, ay)),
                         !.pu = Advance(PuTape(r.seed), r.pu, 1),
                         !.interval = Advance(IntervalTape(r.seed), r.interval, 1)]
    IN  AddSprite([w EXCEPT !.rng = r1], NewPowerUp(pos[1], pos[2], d))

\* the interval the manager draws next
NextInterval(r) == Peek(IntervalTape(r.seed), r.interval, 0)
\* PowerUpManager.__init__ and reset: the source after the interval is drawn
\* (main has no power-up manager)
PowerUpManagerInit(r) ==
    IF variant = "game"
    THEN [r EXCEPT !.interval = Advance(IntervalTape(r.seed), r.interval, 1)]
    ELSE r

\* PowerUpManager.update(dt, player) up to the collection loop: the spawn
\* when the timer ran out, then `self.power_ups.update(dt)`
BeforeCollect(w, pid, timer, t) ==
    LET w1 == IF PickupDue(timer, t)
              THEN SpawnPowerUp(w, w.sprites[pid].x, w.sprites[pid].y)
              ELSE w
    IN  UpdatePowerUpGroup(w1, w1.power_ups, t)

\* PowerUpManager.update(dt, player): the world after it
PowerUpManagerUpdate(w, pid, timer, t) ==
    LET w2 == BeforeCollect(w, pid, timer, t)
    IN  CollectLoop(w2, pid, w2.power_ups)

\* ------------------------------------------------------------------------
\* reset_game (Game.reset_game, main.reset_game)
\* ------------------------------------------------------------------------
\* a reset that leaves the groups as they are (the first one finds none)
EmptyGroupsKept(w) ==
    IF "sprites" \in DOMAIN w
    THEN w
    ELSE [sprites |-> << >>, next_id |-> 1, updatable |-> << >>, drawable |-> << >>,
          asteroids |-> << >>, shots |-> << >>, power_ups |-> << >>, rng |-> w.rng]

\* the groups emptied: objects in no group and referenced by nothing are gone
EmptyGroups(w) ==
    [sprites |-> << >>, next_id |-> 1, updatable |-> << >>, drawable |-> << >>,
     asteroids |-> << >>, shots |-> << >>, power_ups |-> << >>, rng |-> w.rng]

\* reset_game: the groups emptied, then a new Player at the screen centre
\* and a new AsteroidField
ResetWorld(w) ==
    AddSprite(AddSprite(EmptyGroups(w),
                        NewPlayer(SCREEN_WIDTH \div 2, SCREEN_HEIGHT \div 2)),
              NewAsteroidField)

\* difficulty after Game.reset_game (game resets it, main.reset_game does not)
ResetLevel(level) == IF variant = "game" THEN 1 ELSE level
ResetTimer(timer) == IF variant = "game" THEN 0 ELSE timer

\* ------------------------------------------------------------------------
\* The main loop: Game.run / handle_events / update, and main()
\* ------------------------------------------------------------------------
\* 0.05 s per level, ms
SPAWN_RATE_STEP == 50

\* what a step reports about itself
Report(op) == [op |-> op, from |-> current_game_state, key |-> "", hit |-> 0,
               shield |-> FALSE, death |-> FALSE, kills |-> << >>]

\* an update() that also simulates while paused
SimulatesPaused(state) == state \in {"PLAYING", "PAUSED"}

\* an update() that goes on simulating after the game is over
SimulatesGameOver(state) == state \in {"PLAYING", "GAME_OVER"}

\* `if self.current_game_state == GameState.PLAYING:` in update()
Simulates(state) == state = "PLAYING"

\* a handle_events in which the start key also restarts from GAME_OVER
KeyTransitionRestart(state, key) ==
    IF key = "K_p" /\ state = "PLAYING" THEN "PAUSED"
    ELSE IF key = "K_SPACE" /\ state = "PAUSED" THEN "PLAYING"
    ELSE IF key = "K_SPACE" /\ state \in {"MENU", "GAME_OVER"} THEN "PLAYING"
    ELSE IF key = "K_RETURN" /\ state = "GAME_OVER" THEN "MENU"
    ELSE state

\* the state handle_events leaves for a KEYDOWN of `key` in `state`
KeyTransition(state, key) ==
    IF key = "K_p" /\ state = "PLAYING" THEN "PAUSED"
    ELSE IF key = "K_SPACE" /\ state = "PAUSED" THEN "PLAYING"
    ELSE IF key = "K_SPACE" /\ state = "MENU" THEN "PLAYING"
    ELSE IF key = "K_RETURN" /\ state = "GAME_OVER" THEN "MENU"
    ELSE state

\* a handler that ignores the death signal
DeathIgnored(state) == state

\* handle_collision_event("player_death"): the state it sets
DeathState(state) == "GAME_OVER"

\* a bookkeeping that lowers the rate without a floor
NextSpawnRateUnfloored(rate, level) ==
    IF variant = "game" THEN rate - level * SPAWN_RATE_STEP
    ELSE ASTEROID_SPAWN_RATE - level * SPAWN_RATE_STEP

\* the spawn rate the difficulty bookkeeping sets: game lowers the current
\* rate, main recomputes it from ASTEROID_SPAWN_RATE
NextSpawnRate(rate, level) ==
    IF variant = "game" THEN Max(SPAWN_RATE_FLOOR, rate - level * SPAWN_RATE_STEP)
    ELSE Max(SPAWN_RATE_FLOOR, ASTEROID_SPAWN_RATE - level * SPAWN_RATE_STEP)

\* `if self.difficulty_timer >= self.DIFFICULTY_INCREASE_INTERVAL`
\* a bookkeeping that needs more than the interval
LevelUpStrict(timer) == timer > DIFFICULTY_INCREASE_INTERVAL

LevelUp(timer) == timer >= DIFFICULTY_INCREASE_INTERVAL

SetWorld(w) ==
    /\ sprites' = w.sprites
    /\ next_id' = w.next_id
    /\ updatable' = w.updatable
    /\ drawable' = w.drawable
    /\ asteroids' = w.asteroids
    /\ shots' = w.shots
    /\ power_ups' = w.power_ups
    /\ rng' = w.rng

worldVars == <<sprites, next_id, updatable, drawable, asteroids, shots, power_ups, rng>>
sessionVars == <<score, difficulty_level, difficulty_timer, pu_spawn_timer, floating_scores>>

Init ==
    /\ variant \in {"game", "main"}
    /\ pc = "events"
    /\ running = TRUE
    /\ frames = 0
    /\ nevents = 0
    /\ dt = 0
    /\ current_game_state = "MENU"
    /\ \E seed \in Seeds : rng = PowerUpManagerInit(PowerUpManagerInit(NewRandom(seed)))
    /\ LET w == ResetWorld([rng |-> NewRandom(1)])
       IN  /\ sprites = w.sprites
           /\ next_id = w.next_id
           /\ updatable = w.updatable
           /\ drawable = w.drawable
           /\ asteroids = w.asteroids
           /\ shots = w.shots
           /\ power_ups = w.power_ups
    /\ player = 1
    /\ asteroid_field = 2
    /\ score = 0
    /\ difficulty_level = 1
    /\ difficulty_timer = 0
    /\ pu_spawn_timer = IF variant = "game"
                        THEN NextInterval(PowerUpManagerInit(NewRandom(rng.seed))) ELSE 0
    /\ floating_scores = << >>
    /\ deaths = 0
    /\ last = Report("init")

\* handle_events: `if event.type == pygame.QUIT: return False` (game: the
\* iteration still updates and renders; main: `return` leaves main at once)
Quit ==
    /\ pc = "events"
    /\ nevents < MaxEventsPerFrame
    /\ running' = FALSE
    /\ pc' = IF variant = "game" THEN "update" ELSE "stopped"
    /\ nevents' = nevents + 1
    /\ last' = Report("quit")
    /\ UNCHANGED <<variant, frames, dt, current_game_state, worldVars, player,
                   asteroid_field, sessionVars, deaths>>

\* handle_events: a KEYDOWN that starts the game from the menu
Start ==
    /\ pc = "events"
    /\ nevents < MaxEventsPerFrame
    /\ current_game_state = "MENU"
    /\ current_game_state' = KeyTransition(current_game_state, "K_SPACE")
    /\ LET w == ResetWorld(World)
       IN  /\ SetWorld([w EXCEPT !.rng = PowerUpManagerInit(w.rng)])
           /\ player' = w.updatable[1]
           /\ asteroid_field' = w.updatable[2]
    /\ score' = 0
    /\ difficulty_level' = ResetLevel(difficulty_level)
    /\ difficulty_timer' = ResetTimer(difficulty_timer)
    /\ pu_spawn_timer' = IF variant = "game" THEN NextInterval(rng) ELSE 0
    /\ nevents' = nevents + 1
    /\ deaths' = 0
    /\ last' = Report("start")
    /\ UNCHANGED <<variant, pc, running, frames, dt, floating_scores>>

\* handle_events: every other KEYDOWN (pause, resume, confirm, or a key the
\* current state ignores)
KeyDown(key) ==
    /\ pc = "events"
    /\ nevents < MaxEventsPerFrame
    /\ ~(key = "K_SPACE" /\ current_game_state = "MENU")
    /\ current_game_state' = KeyTransition(current_game_state, key)
    /\ nevents' = nevents + 1
    /\ last' = [Report("keydown") EXCEPT !.key = key]
    /\ UNCHANGED <<variant, pc, running, frames, dt, worldVars, player,
                   asteroid_field, sessionVars, deaths>>

\* handle_events: the event queue is exhausted
EndEvents ==
    /\ pc = "events"
    /\ pc' = "update"
    /\ nevents' = 0
    /\ last' = Report("end_events")
    /\ UNCHANGED <<variant, running, frames, dt, current_game_state,
                   worldVars, player, asteroid_field, sessionVars, deaths>>

\* update(): nothing in MENU, PAUSED and GAME_OVER
SkipUpdate ==
    /\ pc = "update"
    /\ ~Simulates(current_game_state)
    /\ pc' = "render"
    /\ last' = Report("skip_update")
    /\ UNCHANGED <<variant, running, frames, nevents, dt, current_game_state,
                   worldVars, player, asteroid_field, sessionVars, deaths>>

\* update(), PLAYING: `self.updatable.update(self.dt)`
UpdateObjects ==
    /\ pc = "update"
    /\ Simulates(current_game_state)
    /\ \E keys \in KeyChoices : SetWorld(UpdateGroup(World, updatable, dt, keys))
    /\ pc' = IF variant = "game" THEN "player_pass" ELSE "collisions"
    /\ last' = Report("update_objects")
    /\ UNCHANGED <<variant, running, frames, nevents, dt, current_game_state,
                   player, asteroid_field, sessionVars, deaths>>

\* CollisionManager.check_player_asteroid_collisions(player, asteroids)
PlayerPass ==
    /\ pc = "player_pass"
    /\ LET p   == sprites[player]
           hit == FirstHit(World, p, asteroids)
       IN  \/ /\ hit = 0
              /\ last' = Report("player_pass")
              /\ UNCHANGED <<worldVars, current_game_state, deaths>>
           \/ /\ hit # 0
              /\ HasActiveShield(p)
              /\ SetWorld(Split(SetSprite(World, player, ShieldAbsorb(p)), hit))
              /\ last' = [Report("player_pass") EXCEPT !.hit = hit, !.shield = TRUE]
              /\ UNCHANGED <<current_game_state, deaths>>
           \/ /\ hit # 0
              /\ ~HasActiveShield(p)
              /\ current_game_state' = DeathState(current_game_state)
              /\ deaths' = deaths + 1
              /\ last' = [Report("player_pass") EXCEPT !.hit = hit, !.death = TRUE]
              /\ UNCHANGED worldVars
    /\ pc' = "shot_pass"
    /\ UNCHANGED <<variant, running, frames, nevents, dt, player, asteroid_field,
                   sessionVars>>

\* CollisionManager.check_shot_asteroid_collisions(shots, asteroids)
ShotPass ==
    /\ pc = "shot_pass"
    /\ LET st == ShotLoop(Pass(World), shots)
       IN  /\ SetWorld(st.w)
           /\ score' = st.score
           /\ floating_scores' = st.fs
           /\ last' = [Report("shot_pass") EXCEPT !.kills = st.kills]
    /\ pc' = "power_ups"
    /\ UNCHANGED <<variant, running, frames, nevents, dt, current_game_state, player,
                   asteroid_field, difficulty_level, difficulty_timer, pu_spawn_timer,
                   deaths>>

\* `self.power_up_manager.update(self.dt, self.player)`
PowerUps ==
    /\ pc = "power_ups"
    /\ SetWorld(PowerUpManagerUpdate(World, player, pu_spawn_timer, dt))
    /\ pu_spawn_timer' = IF PickupDue(pu_spawn_timer, dt) THEN NextInterval(rng)
                         ELSE pu_spawn_timer - dt
    /\ pc' = "difficulty"
    /\ last' = Report("power_ups")
    /\ UNCHANGED <<variant, running, frames, nevents, dt, current_game_state, player,
                   asteroid_field, score, difficulty_level, difficulty_timer,
                   floating_scores, deaths>>

\* main(): the collision loop over the asteroids
MainCollisions ==
    /\ pc = "collisions"
    /\ LET st == MainLoop(Pass(World), asteroids)
           struck == FirstStruck(World, asteroids)
           hits == Hits(World, sprites[player], Reached(asteroids, struck))
           dead == hits > 0
       IN  /\ SetWorld(st.w)
           /\ score' = st.score
           /\ floating_scores' = st.fs
           /\ current_game_state' =
                  IF dead THEN DeathState(current_game_state) ELSE current_game_state
           /\ deaths' = deaths + hits
           /\ last' = [Report("collisions") EXCEPT !.kills = st.kills, !.death = dead]
           /\ pc' = IF struck = 0 THEN "difficulty" ELSE "crashed"
    /\ UNCHANGED <<variant, running, frames, nevents, dt, player, asteroid_field,
                   difficulty_level, difficulty_timer, pu_spawn_timer>>

\* the end of a PLAYING update: screens.update_floating_scores (game only),
\* then the difficulty bookkeeping
Difficulty ==
    /\ pc = "difficulty"
    /\ floating_scores' = IF variant = "game" THEN UpdateFloatingScores(floating_scores, dt)
                          ELSE floating_scores
    /\ LET t   == difficulty_timer + dt
           lvl == IF LevelUp(t) THEN difficulty_level + 1 ELSE difficulty_level
           f   == sprites[asteroid_field]
       IN  /\ difficulty_timer' = IF LevelUp(t) THEN 0 ELSE t
           /\ difficulty_level' = lvl
           /\ sprites' = [sprites EXCEPT ![asteroid_field] =
                             [f EXCEPT !.spawn_rate = NextSpawnRate(f.spawn_rate, lvl),
                                       !.speed_multiplier = 10 + lvl]]
    /\ pc' = "render"
    /\ last' = Report("difficulty")
    /\ UNCHANGED <<variant, running, frames, nevents, dt, current_game_state, next_id,
                   updatable, drawable, asteroids, shots, power_ups, rng, player,
                   asteroid_field, score, pu_spawn_timer, deaths>>

\* the end of a loop iteration: render, then `dt = clock.tick(60) / 1000`
Tick ==
    /\ pc = "render"
    /\ frames < MaxFrames
    /\ dt' \in DtSet
    /\ frames' = frames + 1
    /\ floating_scores' = AgeFloatingScores(floating_scores, dt')
    /\ pc' = IF running THEN "events" ELSE "stopped"
    /\ last' = Report("tick")
    /\ UNCHANGED <<variant, running, nevents, current_game_state, worldVars, player,
                   asteroid_field, score, difficulty_level, difficulty_timer,
                   pu_spawn_timer, deaths>>

Next ==
    \/ Quit
    \/ Start
    \/ \E key \in {"K_p", "K_SPACE", "K_RETURN"} : KeyDown(key)
    \/ EndEvents
    \/ SkipUpdate
    \/ UpdateObjects
    \/ PlayerPass
    \/ ShotPass
    \/ PowerUps
    \/ MainCollisions
    \/ Difficulty
    \/ Tick

Spec == Init /\ [][Next]_vars

\* ------------------------------------------------------------------------
\* Session phases
\* ------------------------------------------------------------------------
\* the edges of the phase machine, each with what causes it: `r` is the
\* report of the step that takes the edge
PhaseEdge(from, to, r) ==
    \/ from = "MENU" /\ to = "PLAYING" /\ r.op = "start"
    \/ from = "PLAYING" /\ to = "PAUSED" /\ r.op = "keydown" /\ r.key = "K_p"
    \/ from = "PAUSED" /\ to = "PLAYING" /\ r.op = "keydown" /\ r.key = "K_SPACE"
    \/ from = "PLAYING" /\ to = "GAME_OVER" /\ r.op \in {"player_pass", "collisions"} /\ r.death
    \/ from = "GAME_OVER" /\ to = "MENU" /\ r.op = "keydown" /\ r.key = "K_RETURN"

\* C1: the phase starts as MENU and every step that changes it takes one of
\* the five edges MENU->PLAYING (start key), PLAYING->PAUSED (pause key),
\* PAUSED->PLAYING (resume key), PLAYING->GAME_OVER (death signalled by the
\* collision pass) and GAME_OVER->MENU (confirm key); no other change of
\* phase is a step of the program.
C1_PhaseEdges ==
    [][current_game_state' # current_game_state
          => PhaseEdge(current_game_state, current_game_state', last')]_vars

\* a session has gone all the way round: started, died, and was confirmed
\* back to the menu
C1_Witness ==
    /\ current_game_state = "MENU"
    /\ last.op = "keydown"
    /\ last.from = "GAME_OVER"
    /\ deaths = 1

\* the simulation state: every entity (position, lifetime, cooldown, effect
\* durations, the spawner's timer), the membership of every collection, the
\* pickup timer, the score and the difficulty
SimState ==
    <<sprites, updatable, drawable, asteroids, shots, power_ups, player,
      asteroid_field, pu_spawn_timer, score, difficulty_level, difficulty_timer>>

\* C2: a frame whose update finds the phase MENU, PAUSED or GAME_OVER leaves
\* the whole simulation state unchanged, whatever its dt: no step of event
\* handling, update or render that starts and ends outside PLAYING changes
\* an entity, a collection, a timer, the score or the difficulty.
C2_StaticOutsidePlaying ==
    [][(/\ pc \in {"events", "update", "render"}
        /\ current_game_state # "PLAYING"
        /\ current_game_state' # "PLAYING")
          => UNCHANGED SimState]_vars

\* a paused frame with a long dt has gone by over a world with an asteroid
\* and a shot in flight
C2_Witness ==
    /\ current_game_state = "PAUSED"
    /\ last.op = "skip_update"
    /\ dt = 30000
    /\ Len(asteroids) > 0
    /\ Len(shots) > 0

\* ------------------------------------------------------------------------
\* Starting a session
\* ------------------------------------------------------------------------
\* the world as construction leaves it: the three entity collections empty,
\* a fresh ship at the screen centre (no active effect, cooldown zero), and
\* score, difficulty level and difficulty timer at their initial values
InitialWorld ==
    /\ asteroids = << >>
    /\ shots = << >>
    /\ power_ups = << >>
    /\ sprites[player] = NewPlayer(SCREEN_WIDTH \div 2, SCREEN_HEIGHT \div 2)
    /\ sprites[player].active_power_ups = << >>
    /\ sprites[player].shoot_cooldown = 0
    /\ score = 0
    /\ difficulty_level = 1
    /\ difficulty_timer = 0

\* C3: every MENU->PLAYING transition, after any previous history, leaves
\* the world in the initial state: obstacle, projectile and pickup
\* collections empty, a fresh ship at the screen centre with no active
\* effect and zero cooldown, score 0, difficulty level 1, difficulty timer 0.
C3_StartResetsWorld ==
    (last.op = "start" /\ last.from = "MENU" /\ current_game_state = "PLAYING")
        => InitialWorld

\* ------------------------------------------------------------------------
\* The ship x obstacle pass
\* ------------------------------------------------------------------------
\* the obstacles the ship collides with as the pass begins
Colliding == {a \in Members(asteroids) : PlayerCheckCollision(sprites[player], sprites[a])}

\* the obstacles of the next state that are not objects of this one
NewAsteroids == {a \in Members(asteroids') : a \notin DOMAIN sprites}

\* obstacle a has been split by the step: it is gone, and it left two
\* children one unit smaller at its position, or none if it was minimal
WasSplit(a) ==
    /\ a \notin DOMAIN sprites'
    /\ a \notin Members(asteroids')
    /\ Members(asteroids') \ NewAsteroids = Members(asteroids) \ {a}
    /\ IF sprites[a].radius > ASTEROID_MIN_RADIUS
       THEN /\ Cardinality(NewAsteroids) = 2
            /\ \A c \in NewAsteroids :
                   /\ sprites'[c].radius = sprites[a].radius - ASTEROID_MIN_RADIUS
                   /\ sprites'[c].x = sprites[a].x
                   /\ sprites'[c].y = sprites[a].y
       ELSE NewAsteroids = {}

\* C4: shield rule.  When the ship has an active shield and collides with an
\* obstacle, the ship x obstacle pass removes the shield effect (the flag is
\* false and the kind is no longer in the effect map), splits that obstacle,
\* leaves the phase PLAYING with no death signalled, and leaves the score
\* as it was.
C4_ShieldRule ==
    [][(pc = "player_pass" /\ HasActiveShield(sprites[player]) /\ Colliding # {})
          => /\ ~sprites'[player].has_shield
             /\ "SHIELD" \notin DOMAIN sprites'[player].active_power_ups
             /\ last'.hit \in Colliding
             /\ WasSplit(last'.hit)
             /\ current_game_state = "PLAYING"
             /\ current_game_state' = "PLAYING"
             /\ deaths' = deaths
             /\ score' = score]_vars

\* a pass has just absorbed a collision with the shield
C4_Witness ==
    /\ last.op = "player_pass"
    /\ last.shield
    /\ last.hit # 0
    /\ current_game_state = "PLAYING"

\* C5: no-shield rule.  When the ship has no shield and collides with an
\* obstacle, the ship x obstacle pass signals the death once, the phase
\* becomes GAME_OVER, and no obstacle is split or removed (the pass stops at
\* the first colliding obstacle); and no session sees more than one death
\* signal.
C5_NoShieldRule ==
    [][/\ (pc = "player_pass" /\ ~HasActiveShield(sprites[player]) /\ Colliding # {})
            => /\ deaths' = deaths + 1
               /\ last'.death
               /\ current_game_state' = "GAME_OVER"
               /\ UNCHANGED <<sprites, asteroids, shots, power_ups, updatable, drawable>>
       /\ (variant = "game" => deaths' <= 1)]_vars

\* a pass has just signalled the death of an unshielded ship
C5_Witness ==
    /\ last.op = "player_pass"
    /\ last.death
    /\ ~sprites[player].has_shield
    /\ current_game_state = "GAME_OVER"
    /\ deaths = 1

\* ------------------------------------------------------------------------
\* The projectile x obstacle pass
\* ------------------------------------------------------------------------
\* the size tier of a radius
Tier(radius) == radius \div ASTEROID_MIN_RADIUS

\* the projectile kills the last step made
Kills == {last.kills[i] : i \in 1..Len(last.kills)}

\* C6: when a projectile hits an obstacle of tier k (radius k * unit) in the
\* projectile x obstacle pass: the obstacle is removed from the world; for
\* k > 1 exactly two children of radius (k - 1) * unit are created at the
\* parent's position and for k = 1 none; the projectile is removed; the
\* score goes up once by int(ASTEROID_BASE_SCORE / k); and exactly one
\* score-feedback event is emitted.
C6_ProjectileHit ==
    (variant = "game" /\ last.op = "shot_pass") =>
        \A r \in Kills :
            LET k == Tier(r.radius)
            IN  /\ r.radius = k * ASTEROID_MIN_RADIUS
                /\ k >= 1
                /\ r.asteroid_gone
                /\ r.shot_gone
                /\ k > 1 => /\ Len(r.children) = 2
                            /\ \A i \in 1..2 :
                                   /\ r.children[i].radius = (k - 1) * ASTEROID_MIN_RADIUS
                                   /\ r.children[i].x = r.x
                                   /\ r.children[i].y = r.y
                /\ k = 1 => r.children = << >>
                /\ r.award = ASTEROID_BASE_SCORE \div k
                /\ Len(r.events) = 1

\* the spec's example: a tier-3 obstacle was hit, and two children of radius
\* 2 * unit are in the world
C6_Witness ==
    /\ variant = "game"
    /\ last.op = "shot_pass"
    /\ \E r \in Kills :
           /\ r.radius = 3 * ASTEROID_MIN_RADIUS
           /\ Cardinality({a \in Members(asteroids) :
                              /\ sprites[a].radius = 2 * ASTEROID_MIN_RADIUS
                              /\ sprites[a].x = r.x
                              /\ sprites[a].y = r.y}) = 2

C8_AwardConvention ==
    /\ \A r \in Kills : r.award = ASTEROID_BASE_SCORE \div Tier(r.radius)
    /\ \A k1, k2 \in 1..ASTEROID_KINDS :
           k1 < k2 => ScoreValue(k1 * ASTEROID_MIN_RADIUS) > ScoreValue(k2 * ASTEROID_MIN_RADIUS)

\* ------------------------------------------------------------------------
\* Asteroid.split on its own: one obstacle of any kind the spawner makes,
\* and split() called on it and on its descendants in any order
\* ------------------------------------------------------------------------
\* what a call of split() did, read off the worlds before (w) and after
\* (w1) it, with the tier of the first obstacle and the calls made so far
SplitReport(w, w1, a, tier, calls) ==
    LET IsNew(i) == i \notin DOMAIN w.sprites
        new == SelectSeq(w1.asteroids, IsNew)
    IN  [op |-> "split", tier |-> tier, calls |-> calls,
         radius |-> w.sprites[a].radius, x |-> w.sprites[a].x, y |-> w.sprites[a].y,
         gone |-> a \notin DOMAIN w1.sprites /\ a \notin Members(w1.asteroids),
         children |-> [i \in 1..Len(new) |->
                          [radius |-> w1.sprites[new[i]].radius,
                           x |-> w1.sprites[new[i]].x, y |-> w1.sprites[new[i]].y]]]

SplitInit ==
    /\ variant \in {"game", "main"}
    /\ pc = "split"
    /\ running = TRUE
    /\ frames = 0
    /\ nevents = 0
    /\ dt = 0
    /\ current_game_state = "PLAYING"
    /\ \E seed \in Seeds : rng = NewRandom(seed)
    /\ \E kind \in 1..ASTEROID_KINDS :
       \E i \in 1..Len(SpawnTape(rng.seed)) :
           LET d == [SpawnTape(rng.seed)[i] EXCEPT !.kind = kind]
               w == AddSprite(EmptyGroups([rng |-> rng]), FieldSpawn(NewAsteroidField, d))
           IN  /\ sprites = w.sprites
               /\ next_id = w.next_id
               /\ updatable = w.updatable
               /\ drawable = w.drawable
               /\ asteroids = w.asteroids
               /\ shots = w.shots
               /\ power_ups = w.power_ups
               /\ last = [op |-> "init", tier |-> kind, calls |-> 0,
                          radius |-> 0, x |-> 0, y |-> 0, gone |-> FALSE,
                          children |-> << >>]
    /\ player = 0
    /\ asteroid_field = 0
    /\ score = 0
    /\ difficulty_level = 1
    /\ difficulty_timer = 0
    /\ pu_spawn_timer = 0
    /\ floating_scores = << >>
    /\ deaths = 0

\* split() is called on an obstacle that is in the world
SplitCall ==
    /\ pc = "split"
    /\ \E a \in Members(asteroids) :
           LET w1 == Split(World, a)
           IN  /\ SetWorld(w1)
               /\ last' = SplitReport(World, w1, a, last.tier, last.calls + 1)
    /\ UNCHANGED <<variant, pc, running, frames, nevents, dt, current_game_state,
                   player, asteroid_field, sessionVars, deaths>>

SplitNext == SplitCall

SplitSpec == SplitInit /\ [][SplitNext]_vars

RECURSIVE Pow2(_)
Pow2(n) == IF n <= 0 THEN 1 ELSE 2 * Pow2(n - 1)

\* the split() calls a family can still take: 2^tier - 1 for every member
RECURSIVE CallsLeft(_)
CallsLeft(ids) ==
    IF ids = << >> THEN 0
    ELSE Pow2(Tier(sprites[Head(ids)].radius)) - 1 + CallsLeft(Tail(ids))

\* C9: split termination.  An obstacle of tier k and all its descendants
\* take at most 2^k - 1 split() calls in total, and after that many none of
\* them is left in the world; every child has a radius exactly one unit
\* smaller than its parent, and a tier-1 obstacle has no children.
C9_SplitTermination ==
    /\ last.calls <= Pow2(last.tier) - 1
    /\ last.calls + CallsLeft(asteroids) = Pow2(last.tier) - 1
    /\ last.calls = Pow2(last.tier) - 1 => asteroids = << >>
    /\ last.op = "split" =>
           /\ last.gone
           /\ Len(last.children) = IF last.radius > ASTEROID_MIN_RADIUS THEN 2 ELSE 0
           /\ \A i \in 1..Len(last.children) :
                  last.children[i].radius = last.radius - ASTEROID_MIN_RADIUS

\* a family of the biggest kind has been split away entirely
C9_Witness ==
    /\ pc = "split"
    /\ last.tier = ASTEROID_KINDS
    /\ last.calls = Pow2(ASTEROID_KINDS) - 1
    /\ asteroids = << >>

\* ------------------------------------------------------------------------
\* Obstacle sizes
\* ------------------------------------------------------------------------
\* C10: in every reachable state every obstacle in the world has radius
\* unit * k for an integer k with 1 <= k <= ASTEROID_KINDS, whether the
\* spawner created it or a chain of splits did.
C10_RadiusTiers ==
    \A a \in Members(asteroids) :
        \E k \in 1..ASTEROID_KINDS : sprites[a].radius = ASTEROID_MIN_RADIUS * k

\* the world holds the minimal children of a split child next to obstacles
\* of other sizes
C10_Witness ==
    /\ last.op = "shot_pass"
    /\ \E r \in Kills :
           /\ r.radius = 2 * ASTEROID_MIN_RADIUS
           /\ Len(r.children) = 2
           /\ r.asteroid > 3
    /\ \E a \in Members(asteroids) : sprites[a].radius = ASTEROID_MIN_RADIUS
    /\ \E a \in Members(asteroids) : sprites[a].radius > ASTEROID_MIN_RADIUS

\* ------------------------------------------------------------------------
\* Pickups
\* ------------------------------------------------------------------------
\* the behaviour flag of an effect kind
Flag(p, kind) ==
    CASE kind = "SHIELD" -> p.has_shield
      [] kind = "TRIPLE_SHOT" -> p.has_triple_shot
      [] kind = "SPEED_BOOST" -> p.has_speed_boost

\* distance(ship, pickup) <= ship.radius + pickup.radius * 1.2, in tenths
WithinReach(p, u) ==
    100 * ((p.x - u.x) * (p.x - u.x) + (p.y - u.y) * (p.y - u.y))
        <= (10 * p.radius + 12 * u.radius) * (10 * p.radius + 12 * u.radius)

\* C11: in a pickup-manager update, every pickup that is live when the
\* collection loop starts and within ship.radius + pickup.radius * 1.2 of the
\* ship is removed from the world (from every group), and afterwards the
\* ship's effect map holds the pickup's kind with the pickup's configured
\* duration and the matching flag is set.
C11_PickupCollection ==
    [][pc = "power_ups" =>
         LET w2   == BeforeCollect(World, player, pu_spawn_timer, dt)
             ship == w2.sprites[player]
         IN  \A id \in Members(w2.power_ups) :
                 LET u == w2.sprites[id]
                 IN  WithinReach(ship, u) =>
                         /\ id \notin DOMAIN sprites'
                         /\ id \notin Members(power_ups') \cup Members(updatable')
                                          \cup Members(drawable')
                         /\ u.type \in DOMAIN sprites'[player].active_power_ups
                         /\ sprites'[player].active_power_ups[u.type] = u.duration
                         /\ u.duration = Duration(u.type)
                         /\ Flag(sprites'[player], u.type)]_vars

\* a pickup-manager update has just collected a pickup: the effect is at its
\* full duration and no pickup is left in the world
C11_Witness ==
    /\ last.op = "power_ups"
    /\ power_ups = << >>
    /\ \E k \in DOMAIN sprites[player].active_power_ups :
           /\ sprites[player].active_power_ups[k] = Duration(k)
           /\ Flag(sprites[player], k)

\* ------------------------------------------------------------------------
\* Single operations called on their own: the state around one object or one
\* pair of objects, with the main loop at rest
\* ------------------------------------------------------------------------
benchFixed == <<variant, pc, running, frames, nevents, dt, current_game_state,
                player, asteroid_field, sessionVars, deaths>>

\* the state of a call on its own: the world w, the report r
Bench(v, w, r) ==
    /\ variant = v
    /\ pc = "call"
    /\ running = TRUE
    /\ frames = 0
    /\ nevents = 0
    /\ dt = 0
    /\ current_game_state = "PLAYING"
    /\ sprites = w.sprites
    /\ next_id = w.next_id
    /\ updatable = w.updatable
    /\ drawable = w.drawable
    /\ asteroids = w.asteroids
    /\ shots = w.shots
    /\ power_ups = w.power_ups
    /\ rng = w.rng
    /\ player = 0
    /\ asteroid_field = 0
    /\ score = 0
    /\ difficulty_level = 1
    /\ difficulty_timer = 0
    /\ pu_spawn_timer = 0
    /\ floating_scores = << >>
    /\ deaths = 0
    /\ last = r

\* ------------------------------------------------------------------------
\* wrap_position
\* ------------------------------------------------------------------------
MaxWrapCalls == 2

\* coordinates on, next to and far from the two wrap thresholds of an axis
WrapCoords(radius, extent) ==
    {-radius - extent, -radius - 1, -radius, extent \div 2,
     extent + radius, extent + radius + 1, 2 * extent + radius}

WrapInit ==
    \E v \in {"game", "main"} :
    \E radius \in {SHOT_RADIUS, PLAYER_RADIUS, ASTEROID_MAX_RADIUS} :
    \E x \in WrapCoords(radius, SCREEN_WIDTH) :
    \E y \in WrapCoords(radius, SCREEN_HEIGHT) :
        Bench(v, AddSprite(EmptyGroups([rng |-> NewRandom(1)]),
                           NewAsteroid(x, y, radius, 0, 0)),
              [op |-> "init", calls |-> 0, x |-> x, y |-> y])

\* shape.wrap_position(SCREEN_WIDTH, SCREEN_HEIGHT)
WrapCall ==
    /\ pc = "call"
    /\ last.calls < MaxWrapCalls
    /\ \E id \in DOMAIN sprites :
           /\ SetWorld(SetSprite(World, id, WrapPosition(sprites[id])))
           /\ last' = [op |-> "wrap", calls |-> last.calls + 1,
                       x |-> sprites[id].x, y |-> sprites[id].y]
    /\ UNCHANGED benchFixed

WrapNext == WrapCall

WrapSpec == WrapInit /\ [][WrapNext]_vars

\* one axis: c before the call, c1 after it
WrappedAxis(c, c1, radius, extent) ==
    /\ c < -radius => c1 = extent + radius
    /\ c > extent + radius => c1 = -radius
    /\ (-radius <= c /\ c <= extent + radius) => c1 = c

\* C12: wrap_position, on each axis independently, sends a coordinate below
\* -radius to exactly extent + radius, a coordinate above extent + radius to
\* exactly -radius, and leaves a coordinate in [-radius, extent + radius]
\* alone; a second call changes nothing (idempotence).
C12_WrapPosition ==
    last.op = "wrap" =>
        \A id \in DOMAIN sprites :
            LET o == sprites[id]
            IN  /\ WrappedAxis(last.x, o.x, o.radius, SCREEN_WIDTH)
                /\ WrappedAxis(last.y, o.y, o.radius, SCREEN_HEIGHT)
                /\ last.calls >= 2 => (o.x = last.x /\ o.y = last.y)

\* a shape left of the screen and below it has been wrapped on both axes
C12_Witness ==
    /\ last.op = "wrap"
    /\ last.calls = 1
    /\ last.x < -ASTEROID_MAX_RADIUS
    /\ last.y > SCREEN_HEIGHT + ASTEROID_MAX_RADIUS
    /\ \E id \in DOMAIN sprites :
           /\ sprites[id].x = SCREEN_WIDTH + sprites[id].radius
           /\ sprites[id].y = -sprites[id].radius
           /\ sprites[id].radius = ASTEROID_MAX_RADIUS

\* ------------------------------------------------------------------------
\* check_collision on a pair of shapes
\* ------------------------------------------------------------------------
\* offsets of the second shape from the first, on one axis: touching,
\* overlapping and apart for the radii in play
CollideOffsets == {-85, -43, -38, -25, 0, 25, 38, 43, 85}

\* the first shape of a pair, at the screen centre: a ship (with or without
\* a shield, at any quarter turn), a shot, an obstacle of the smallest kind
FirstShapes ==
    LET cx == SCREEN_WIDTH \div 2
        cy == SCREEN_HEIGHT \div 2
        ship(q) == [NewPlayer(cx, cy) EXCEPT !.angle = q]
    IN  {ship(q) : q \in 0..3}
            \cup {AddPowerUp(ship(q), "SHIELD", Duration("SHIELD")) : q \in 0..3}
            \cup {NewShot(cx, cy, 0, 0), NewAsteroid(cx, cy, ASTEROID_MIN_RADIUS, 0, 0)}

CollideInit ==
    \E v \in {"game", "main"} :
    \E a \in FirstShapes :
    \E dx \in CollideOffsets :
    \E dy \in CollideOffsets :
    \E kind \in 1..ASTEROID_KINDS :
        Bench(v, AddSprite(AddSprite(EmptyGroups([rng |-> NewRandom(1)]), a),
                           NewAsteroid(a.x + dx, a.y + dy, kind * ASTEROID_MIN_RADIUS, 0, 0)),
              [op |-> "init", ab |-> FALSE, ba |-> FALSE])

\* a.check_collision(b) and b.check_collision(a) for the pair in the world
CollideCall ==
    /\ pc = "call"
    /\ last.op = "init"
    /\ last' = [op |-> "collide", ab |-> CheckCollision(sprites[1], sprites[2]),
                ba |-> CheckCollision(sprites[2], sprites[1])]
    /\ UNCHANGED <<benchFixed, worldVars>>

CollideNext == CollideCall

CollideSpec == CollideInit /\ [][CollideNext]_vars

\* the pair's centres are within the sum of the radii
CirclesOverlap(a, b) ==
    (a.x - b.x) * (a.x - b.x) + (a.y - b.y) * (a.y - b.y)
        <= (a.radius + b.radius) * (a.radius + b.radius)

\* the pair is tested with the circle test on both sides: no ship, or a ship
\* with its shield up, or the ship of main (which has no polygon)
CircleTested == sprites[1].cls # "Player" \/ sprites[1].has_shield \/ variant = "main"

\* C13 as stated: a.check_collision(b) = b.check_collision(a) for every pair
\* of shapes, ship-obstacle pairs included.
C13_CheckCollisionSymmetric == last.op = "collide" => last.ab = last.ba

\* C13 as amended: the circle test is symmetric, and it is the test of every
\* pair except one whose first shape is an unshielded ship of the game: for
\* those pairs a.check_collision(b) = b.check_collision(a) = the centres are
\* within the sum of the radii; the obstacle's side of an unshielded
\* ship-obstacle pair is still the circle test.
C13_CircleSymmetry ==
    last.op = "collide" =>
        /\ CircleTested =>
               (last.ab = last.ba /\ last.ab = CirclesOverlap(sprites[1], sprites[2]))
        /\ last.ba = CirclesOverlap(sprites[2], sprites[1])

\* a shielded ship and a bigger obstacle that overlap have been tested both ways
C13_Witness ==
    /\ last.op = "collide"
    /\ variant = "game"
    /\ sprites[1].cls = "Player"
    /\ sprites[1].has_shield
    /\ sprites[2].radius > sprites[1].radius
    /\ sprites[2].x # sprites[1].x
    /\ last.ab
    /\ last.ba

\* ------------------------------------------------------------------------
\* shoot(), called on its own and through Player.update
\* ------------------------------------------------------------------------
MaxShootCalls == 2

\* cooldowns before the call: elapsed, just elapsed, half run, just reset (ms)
ShootCooldowns == {-PLAYER_SHOOT_COOLDOWN, 0, PLAYER_SHOOT_COOLDOWN \div 2, PLAYER_SHOOT_COOLDOWN}
\* frame times and pressed keys of the update calls
ShootDts == {PLAYER_SHOOT_COOLDOWN \div 2, PLAYER_SHOOT_COOLDOWN}
ShootKeys == {{}, {"K_SPACE"}, {"K_SPACE", "K_UP"}}

\* the sequence of the shots added to world w
RECURSIVE AddShots(_, _)
AddShots(w, ss) == IF ss = << >> THEN w ELSE AddShots(AddSprite(w, Head(ss)), Tail(ss))

\* what a call reports: whether shoot() was reached and the ship as it was
\* at that moment
ShootReport(op, calls, reached, p, base) ==
    [op |-> op, calls |-> calls, reached |-> reached, cooldown |-> p.shoot_cooldown,
     triple |-> p.has_triple_shot, x |-> p.x, y |-> p.y, heading |-> Direction(p),
     base |-> base]

ShootInit ==
    \E v \in {"game", "main"} :
    \E q \in 0..3 :
    \E c \in ShootCooldowns :
    \E triple \in (IF v = "game" THEN BOOLEAN ELSE {FALSE}) :
        LET p0 == [NewPlayer(SCREEN_WIDTH \div 2, SCREEN_HEIGHT \div 2)
                      EXCEPT !.angle = q, !.shoot_cooldown = c]
            p  == IF triple THEN AddPowerUp(p0, "TRIPLE_SHOT", Duration("TRIPLE_SHOT"))
                  ELSE p0
        IN  Bench(v, AddSprite(EmptyGroups([rng |-> NewRandom(1)]), p),
                  [op |-> "init", calls |-> 0, reached |-> FALSE, cooldown |-> c,
                   triple |-> triple, x |-> p.x, y |-> p.y, heading |-> <<0, 0>>,
                   base |-> 2])

\* player.shoot() called directly
ShootCall ==
    /\ pc = "call"
    /\ last.calls < MaxShootCalls
    /\ LET p == sprites[1]
       IN  /\ SetWorld(AddShots(SetSprite(World, 1, ShootPlayer(p)), ShootShots(p)))
           /\ last' = ShootReport("shoot", last.calls + 1, TRUE, p, next_id)
    /\ UNCHANGED benchFixed

\* player.update(dt) with some keys held
ShootUpdateCall ==
    /\ pc = "call"
    /\ last.calls < MaxShootCalls
    /\ \E keys \in ShootKeys :
       \E t \in ShootDts :
           LET q == PlayerBeforeShot(sprites[1], keys, t)
           IN  /\ SetWorld(UpdateOne(World, 1, t, keys))
               /\ last' = ShootReport("update", last.calls + 1, CallsShoot(q, keys), q, next_id)
    /\ UNCHANGED benchFixed

ShootNext == ShootCall \/ ShootUpdateCall

ShootSpec == ShootInit /\ [][ShootNext]_vars

\* the shots the last call created
NewShots == {id \in DOMAIN sprites : id >= last.base /\ sprites[id].cls = "Shot"}

\* C14: shoot() is a no-op while shoot_cooldown > 0, however it is reached
\* (directly or through the per-frame update with the fire key held): no
\* projectile is created and the cooldown is not reset.
C14_ShootOnCooldown ==
    (last.op \in {"shoot", "update"} /\ last.reached /\ last.cooldown > 0) =>
        /\ NewShots = {}
        /\ next_id = last.base
        /\ sprites[1].shoot_cooldown = last.cooldown

\* the velocity of shot s along the heading h and across it
Along(s, h) == s.vx * h[1] + s.vy * h[2]
Across(s, h) == s.vy * h[1] - s.vx * h[2]

\* C15: a successful shot (shoot() reached through Player.update, or main's
\* shoot() called directly, with the cooldown elapsed) resets shoot_cooldown
\* to PLAYER_SHOOT_COOLDOWN and creates exactly one projectile at the ship's
\* position along the heading, or exactly three (the heading and 15 degrees
\* to either side of it) with the triple-shot effect; every new projectile
\* has the full SHOT_LIFETIME.
C15_SuccessfulShot ==
    (/\ last.op \in {"shoot", "update"}
     /\ last.op = "update" \/ variant = "main"
     /\ last.reached
     /\ last.cooldown <= 0) =>
        /\ sprites[1].shoot_cooldown = PLAYER_SHOOT_COOLDOWN
        /\ Cardinality(NewShots) = IF last.triple THEN 3 ELSE 1
        /\ next_id = last.base + Cardinality(NewShots)
        /\ \A id \in NewShots :
               /\ sprites[id].x = last.x
               /\ sprites[id].y = last.y
               /\ sprites[id].lifetime = SHOT_LIFETIME
               /\ sprites[id].radius = SHOT_RADIUS
               /\ id \in Members(shots)
        /\ Cardinality({id \in NewShots :
                            /\ Along(sprites[id], last.heading) = PLAYER_SHOOT_SPEED
                            /\ Across(sprites[id], last.heading) = 0}) = 1
        /\ last.triple =>
               \A sg \in {-1, 1} :
                   Cardinality({id \in NewShots :
                                   /\ Along(sprites[id], last.heading) = TRIPLE_COS
                                   /\ Across(sprites[id], last.heading) = sg * TRIPLE_SIN}) = 1

\* an update with the fire key held, the cooldown elapsed and the triple-shot
\* effect active has fired a volley after the ship moved
C15_Witness ==
    /\ last.op = "update"
    /\ last.reached
    /\ last.cooldown <= 0
    /\ last.triple
    /\ last.y # SCREEN_HEIGHT \div 2
    /\ Cardinality(NewShots) = 3

\* ------------------------------------------------------------------------
\* The ship's effects: add_power_up, remove_power_up, update_power_ups called
\* on their own
\* ------------------------------------------------------------------------
MaxEffectCalls == 2

\* time left of an effect before the calls (ms); 0 stands for "not active"
EffectLeft == {0, 300, 5000}
\* the durations add_power_up is called with: the kind's own and a short one
EffectDurations(kind) == {Duration(kind), 2000}
\* the frame times update_power_ups is called with
EffectDts == {300, 4700}

\* a ship with the given time left for each kind
ShipWith(left) ==
    LET Give(p, kind) == IF left[kind] > 0 THEN AddPowerUp(p, kind, left[kind]) ELSE p
    IN  Give(Give(Give(NewPlayer(SCREEN_WIDTH \div 2, SCREEN_HEIGHT \div 2),
                       "SHIELD"), "TRIPLE_SHOT"), "SPEED_BOOST")

EffectReport(op, kind, amount) ==
    [op |-> op, calls |-> last.calls + 1, kind |-> kind, amount |-> amount,
     before |-> sprites[1]]

EffectInit ==
    \E left \in [PowerUpType -> EffectLeft] :
        Bench("game", AddSprite(EmptyGroups([rng |-> NewRandom(1)]), ShipWith(left)),
              [op |-> "init", calls |-> 0, kind |-> "", amount |-> 0,
               before |-> ShipWith(left)])

\* player.add_power_up(kind, duration)
AddEffectCall ==
    /\ pc = "call"
    /\ last.calls < MaxEffectCalls
    /\ \E kind \in PowerUpType :
       \E duration \in EffectDurations(kind) :
           /\ SetWorld(SetSprite(World, 1, AddPowerUp(sprites[1], kind, duration)))
           /\ last' = EffectReport("add", kind, duration)
    /\ UNCHANGED benchFixed

\* player.remove_power_up(kind)
RemoveEffectCall ==
    /\ pc = "call"
    /\ last.calls < MaxEffectCalls
    /\ \E kind \in PowerUpType :
           /\ SetWorld(SetSprite(World, 1, RemovePowerUp(sprites[1], kind)))
           /\ last' = EffectReport("remove", kind, 0)
    /\ UNCHANGED benchFixed

\* player.update_power_ups(dt)
UpdateEffectsCall ==
    /\ pc = "call"
    /\ last.calls < MaxEffectCalls
    /\ \E t \in EffectDts :
           /\ SetWorld(SetSprite(World, 1, UpdatePowerUps(sprites[1], t)))
           /\ last' = EffectReport("update_effects", "", t)
    /\ UNCHANGED benchFixed

EffectNext == AddEffectCall \/ RemoveEffectCall \/ UpdateEffectsCall

EffectSpec == EffectInit /\ [][EffectNext]_vars

\* the effect map of a ship, and the ship's three flags
Effects(p) == p.active_power_ups
Flags(p) == [k \in PowerUpType |-> Flag(p, k)]

\* C16: add_power_up of a kind sets its time left to the new duration whether
\* or not the kind was active (never the old time plus the new, never a
\* second entry), sets its flag and touches no other kind; remove_power_up
\* of a kind that is not active changes nothing; remove_power_up of an
\* active kind drops its entry and clears its flag.
C16_AddRemoveIdempotent ==
    LET p == sprites[1]
        b == last.before
    IN  /\ last.op = "add" =>
               /\ DOMAIN Effects(p) = DOMAIN Effects(b) \cup {last.kind}
               /\ Effects(p)[last.kind] = last.amount
               /\ \A k \in DOMAIN Effects(b) \ {last.kind} : Effects(p)[k] = Effects(b)[k]
               /\ Flags(p) = [Flags(b) EXCEPT ![last.kind] = TRUE]
        /\ (last.op = "remove" /\ last.kind \notin DOMAIN Effects(b)) => p = b
        /\ (last.op = "remove" /\ last.kind \in DOMAIN Effects(b)) =>
               /\ DOMAIN Effects(p) = DOMAIN Effects(b) \ {last.kind}
               /\ \A k \in DOMAIN Effects(p) : Effects(p)[k] = Effects(b)[k]
               /\ Flags(p) = [Flags(b) EXCEPT ![last.kind] = FALSE]

\* an effect with time left has been added again with its full duration
C16_Witness ==
    /\ last.op = "add"
    /\ last.kind \in DOMAIN Effects(last.before)
    /\ Effects(last.before)[last.kind] = 5000
    /\ last.amount = Duration("SHIELD")
    /\ last.kind = "SHIELD"
    /\ Effects(sprites[1])["SHIELD"] = Duration("SHIELD")

\* C17: update_power_ups(dt) takes exactly dt off the time left of every
\* active effect and removes every effect whose time left is then <= 0,
\* clearing its flag and no other; after the call every effect in the map
\* has time left > 0.
C17_UpdateEffects ==
    last.op = "update_effects" =>
        LET p == sprites[1]
            b == last.before
            t == last.amount
            gone == {k \in DOMAIN Effects(b) : Effects(b)[k] - t <= 0}
        IN  /\ DOMAIN Effects(p) = DOMAIN Effects(b) \ gone
            /\ \A k \in DOMAIN Effects(p) :
                   Effects(p)[k] = Effects(b)[k] - t /\ Effects(p)[k] > 0
            /\ Flags(p) = [k \in PowerUpType |-> Flags(b)[k] /\ k \notin gone]

\* an update has run one effect out exactly and left another running
C17_Witness ==
    /\ last.op = "update_effects"
    /\ last.amount = 300
    /\ \E k \in DOMAIN Effects(last.before) :
           Effects(last.before)[k] = 300 /\ k \notin DOMAIN Effects(sprites[1])
    /\ \E k \in DOMAIN Effects(sprites[1]) : Effects(sprites[1])[k] = 4700

\* ------------------------------------------------------------------------
\* The order of the steps of a PLAYING frame
\* ------------------------------------------------------------------------
\* C18: in every PLAYING frame the steps run in the order spawner and pickup
\* manager, entity motion, collision resolution, difficulty bookkeeping: the
\* pickup manager's spawn/collect step never comes after a collision pass of
\* its frame, the ship x obstacle pass comes after the motion or the pickup
\* manager, and the difficulty bookkeeping comes straight after the
\* collision passes.
C18_FrameOrder ==
    [][/\ last'.op = "power_ups" => last.op \notin {"player_pass", "shot_pass", "collisions"}
       /\ last'.op = "player_pass" => last.op \in {"update_objects", "power_ups"}
       /\ last'.op = "difficulty" => last.op \in {"shot_pass", "collisions"}]_vars

\* ------------------------------------------------------------------------
\* The score
\* ------------------------------------------------------------------------
\* the awards of a sequence of kills, added up
RECURSIVE SumAwards(_)
SumAwards(ks) == IF ks = << >> THEN 0 ELSE Head(ks).award + SumAwards(Tail(ks))

\* C19: the score is always an integer >= 0; it goes up only in the
\* projectile x obstacle pass (by the awards of that pass's kills), never in
\* the ship x obstacle pass, the pickup manager, the spawner or any other
\* step; and it goes down only in the MENU->PLAYING reset, which sets it to 0.
C19_Score ==
    /\ score \in Nat
    /\ [][/\ score' \in Nat
          /\ score' > score =>
                 /\ pc \in {"shot_pass", "collisions"}
                 /\ last'.kills # << >>
                 /\ score' = score + SumAwards(last'.kills)
          /\ score' < score =>
                 /\ last'.op = "start"
                 /\ current_game_state = "MENU"
                 /\ current_game_state' = "PLAYING"
                 /\ score' = 0
          /\ (last'.op = "start" /\ current_game_state' = "PLAYING") => score' = 0]_vars

\* a projectile x obstacle pass has added to a score that earlier passes built
C19_Witness ==
    /\ last.op = "shot_pass"
    /\ last.kills # << >>
    /\ score > SumAwards(last.kills)

\* ------------------------------------------------------------------------
\* Pickups over whole PLAYING frames: Game.update on a world that holds the
\* ship and pickups only
\* ------------------------------------------------------------------------
MaxPickupFrames == 3

\* frame times, and the lifetimes and drifts pickups are created with
PickupDts == {300, 2500, 5000}
PickupLifetimes == {5000, 10000}
PickupDrifts == {<<30, 0>>, <<0, -30>>}

\* the pickups of the world: id -> [x, y, lifetime]
PickupSnapshot ==
    [id \in Members(power_ups) |->
        [x |-> sprites[id].x, y |-> sprites[id].y, lifetime |-> sprites[id].lifetime]]

PickupInit ==
    \E seed \in Seeds :
    \E life \in PickupLifetimes :
    \E v \in PickupDrifts :
    \E kind \in PowerUpType :
        LET ship == NewPlayer(PLAYER_RADIUS, PLAYER_RADIUS)
            u    == NewPowerUp(SCREEN_WIDTH \div 2, SCREEN_HEIGHT \div 2,
                               [type |-> kind, vx |-> v[1], vy |-> v[2], lifetime |-> life])
        IN  Bench("game",
                  AddSprite(AddSprite(EmptyGroups([rng |-> NewRandom(seed)]), ship), u),
                  [op |-> "init", frames |-> 0, t |-> 0, played |-> 0, created |-> life,
                   before |-> << >>])

\* one PLAYING frame of Game.update: updatable.update(dt), the collision
\* passes (nothing to collide with), power_up_manager.update(dt, player)
PickupFrame ==
    /\ pc = "call"
    /\ last.frames < MaxPickupFrames
    /\ \E t \in PickupDts :
           LET w1 == UpdateGroup(World, updatable, t, {})
           IN  /\ SetWorld(PowerUpManagerUpdate(w1, 1, pu_spawn_timer, t))
               /\ pu_spawn_timer' = IF PickupDue(pu_spawn_timer, t) THEN NextInterval(rng)
                                    ELSE pu_spawn_timer - t
               /\ last' = [op |-> "frame", frames |-> last.frames + 1, t |-> t,
                           played |-> last.played + t, created |-> last.created,
                           before |-> PickupSnapshot]
    /\ UNCHANGED <<variant, pc, running, frames, nevents, dt, current_game_state,
                   player, asteroid_field, score, difficulty_level, difficulty_timer,
                   floating_scores, deaths>>

PickupNext == PickupFrame

PickupSpec == PickupInit /\ [][PickupNext]_vars

\* C20: in each PLAYING frame with time step dt every pickup that is live at
\* the start of the frame and still live at its end has lost exactly dt of
\* its lifetime and moved by exactly velocity * dt (then wrapped), once; a
\* pickup that left the world uncollected had at most dt of lifetime left;
\* so the pickup created with lifetime L is still there until L of play time
\* has accumulated.
C20_PickupLifetime ==
    last.op = "frame" =>
        /\ \A id \in DOMAIN last.before :
               LET b == last.before[id]
               IN  IF id \in DOMAIN sprites
                   THEN LET u == sprites[id]
                        IN  /\ u.lifetime = b.lifetime - last.t
                            /\ u.x = WrapAxis(b.x + Step(u.vx, last.t), u.radius, SCREEN_WIDTH)
                            /\ u.y = WrapAxis(b.y + Step(u.vy, last.t), u.radius, SCREEN_HEIGHT)
                   ELSE b.lifetime - last.t <= 0
        /\ 2 \notin DOMAIN sprites => last.played >= last.created

\* ------------------------------------------------------------------------
\* The cooldown
\* ------------------------------------------------------------------------
\* C21: shoot_cooldown is >= 0 in every reachable state: the per-frame
\* countdown never drives it below 0, whatever the frame times.
C21_CooldownNonNegative ==
    \A id \in DOMAIN sprites :
        sprites[id].cls = "Player" => sprites[id].shoot_cooldown >= 0

\* ------------------------------------------------------------------------
\* The collision passes of one frame
\* (CollisionManager.check_player_asteroid_collisions, then
\* check_shot_asteroid_collisions, as Game.update calls them)
\* ------------------------------------------------------------------------
\* the scene: a ship at the screen centre, with or without a shield, three
\* obstacles on it, next to it or far from it, and two projectiles on the
\* ship, on the far obstacle or in empty space
PassShip == <<SCREEN_WIDTH \div 2, SCREEN_HEIGHT \div 2>>

PassNear == {PassShip, <<PassShip[1] + PLAYER_RADIUS \div 2, PassShip[2]>>}

PassFar == <<SCREEN_WIDTH \div 4, SCREEN_HEIGHT \div 4>>

PassEmpty == <<3 * (SCREEN_WIDTH \div 4), 3 * (SCREEN_HEIGHT \div 4)>>

PassRadii == {ASTEROID_MIN_RADIUS, 2 * ASTEROID_MIN_RADIUS}

\* the ids of the three obstacles of the scene (the ship is object 1)
PassObstacles == 2..4

PassWorld(shield, at, radius, bullets) ==
    LET ship == IF shield THEN AddPowerUp(NewPlayer(PassShip[1], PassShip[2]),
                                          "SHIELD", Duration("SHIELD"))
                ELSE NewPlayer(PassShip[1], PassShip[2])
        w1 == AddSprite(EmptyGroups([rng |-> NewRandom(1)]), ship)
        w2 == AddSprite(w1, NewAsteroid(at[1][1], at[1][2], radius[1], 0, 0))
        w3 == AddSprite(w2, NewAsteroid(at[2][1], at[2][2], radius[2], 0, 0))
        w4 == AddSprite(w3, NewAsteroid(at[3][1], at[3][2], radius[3], 0, 0))
        w5 == AddSprite(w4, NewShot(bullets[1][1], bullets[1][2], 0, 0))
    IN  AddSprite(w5, NewShot(bullets[2][1], bullets[2][2], 0, 0))

PassInit ==
    \E shield \in BOOLEAN :
    \E at \in [1..3 -> PassNear \cup {PassFar}] :
    \E radius \in [1..3 -> PassRadii] :
    \E bullets \in [1..2 -> {PassShip, PassFar, PassEmpty}] :
        LET w == PassWorld(shield, at, radius, bullets)
        IN  /\ variant = "game"
            /\ pc = "player_pass"
            /\ running = TRUE
            /\ frames = 0
            /\ nevents = 0
            /\ dt = 0
            /\ current_game_state = "PLAYING"
            /\ sprites = w.sprites
            /\ next_id = w.next_id
            /\ updatable = w.updatable
            /\ drawable = w.drawable
            /\ asteroids = w.asteroids
            /\ shots = w.shots
            /\ power_ups = w.power_ups
            /\ rng = w.rng
            /\ player = 1
            /\ asteroid_field = 0
            /\ score = 0
            /\ difficulty_level = 1
            /\ difficulty_timer = 0
            /\ pu_spawn_timer = 0
            /\ floating_scores = << >>
            /\ deaths = 0
            /\ last = Report("update_objects")

PassNext == PlayerPass \/ ShotPass

PassSpec == PassInit /\ [][PassNext]_vars

\* C22: with the shield active and two or more obstacles colliding with the
\* ship, the ship x obstacle pass splits exactly one of them (the first of
\* the group that collides), leaves every other obstacle as it was, and ends
\* without a death signal and in the same phase.
C22_ShieldAbsorbsOneHit ==
    [][(pc = "player_pass" /\ HasActiveShield(sprites[player])
             /\ Cardinality(Colliding) >= 2)
          => /\ last'.hit \in Colliding
             /\ WasSplit(last'.hit)
             /\ \A b \in Members(asteroids) \ {last'.hit} :
                    /\ b \in Members(asteroids')
                    /\ sprites'[b] = sprites[b]
             /\ ~last'.death
             /\ deaths' = deaths
             /\ current_game_state' = current_game_state]_vars

\* the shield has just absorbed a hit, and another obstacle of the scene
\* still overlaps the ship, unsplit
C22_Witness ==
    /\ last.op = "player_pass"
    /\ last.shield
    /\ ~HasActiveShield(sprites[player])
    /\ \E b \in (Members(asteroids) \cap PassObstacles) \ {last.hit} :
           PlayerCheckCollision(sprites[player], sprites[b])

\* the shots and the asteroids the pass of the step has destroyed
KilledBy == {last'.kills[i].shot : i \in 1..Len(last'.kills)}

Destroyed == {last'.kills[i].asteroid : i \in 1..Len(last'.kills)}

\* C23: in one projectile x obstacle pass no entity is skipped or handled
\* twice.  Each projectile destroys at most one obstacle, it overlapped that
\* obstacle, and it is removed; each obstacle is destroyed by at most one
\* projectile and is gone afterwards; a target is an obstacle of the group
\* at the start of the pass or a child made by a split earlier in the pass;
\* the projectiles that destroyed nothing are all still there and overlap no
\* obstacle that is left; the obstacles not destroyed are as they were.
C23_ShotPassIteration ==
    [][(variant = "game" /\ pc = "shot_pass") =>
          LET K == last'.kills
          IN  /\ \A i, j \in 1..Len(K) :
                     (K[i].shot = K[j].shot \/ K[i].asteroid = K[j].asteroid) => i = j
              /\ \A i \in 1..Len(K) :
                     /\ K[i].shot \in Members(shots)
                     /\ K[i].shot \notin Members(shots')
                     /\ K[i].shot \notin DOMAIN sprites'
                     /\ K[i].asteroid \notin Members(asteroids')
                     /\ K[i].asteroid \notin DOMAIN sprites'
                     /\ CircleCheckCollision(sprites[K[i].shot], K[i])
                     /\ \/ K[i].asteroid \in Members(asteroids)
                        \/ /\ K[i].asteroid \notin DOMAIN sprites
                           /\ \E j \in 1..(i - 1) :
                                  /\ K[j].x = K[i].x
                                  /\ K[j].y = K[i].y
                                  /\ K[j].radius = K[i].radius + ASTEROID_MIN_RADIUS
              /\ Members(shots') = Members(shots) \ KilledBy
              /\ \A s \in Members(shots') :
                     /\ sprites'[s] = sprites[s]
                     /\ \A a \in Members(asteroids') :
                            ~CircleCheckCollision(sprites'[s], sprites'[a])
              /\ \A a \in Members(asteroids) \ Destroyed :
                     /\ a \in Members(asteroids')
                     /\ sprites'[a] = sprites[a]]_vars

\* a pass in which the first projectile split an obstacle of the scene and
\* the second one destroyed a child of that split
C23_Witness ==
    /\ variant = "game"
    /\ last.op = "shot_pass"
    /\ Len(last.kills) = 2
    /\ last.kills[1].asteroid \in PassObstacles
    /\ last.kills[1].radius > ASTEROID_MIN_RADIUS
    /\ last.kills[2].asteroid \notin PassObstacles
    /\ last.kills[2].shot # last.kills[1].shot
    /\ Members(shots) = {}

\* ------------------------------------------------------------------------
\* The death frame
\* ------------------------------------------------------------------------
\* a shot of the group overlaps an asteroid of the group
ShotOnTarget ==
    \E s \in Members(shots) : \E a \in Members(asteroids) :
        CircleCheckCollision(sprites[s], sprites[a])

\* C24: a death signalled in the ship x obstacle pass does not preempt the
\* frame.  The pass hands over to the projectile x obstacle pass in the same
\* frame; with the phase already GAME_OVER that pass still destroys what the
\* projectiles overlap and scores it, the pickup manager still counts its
\* timer down or creates the pickup object that is due, and the difficulty
\* bookkeeping still advances its timer or the level; only the update of a
\* later frame, finding the phase the death has left, simulates nothing.
C24_DeathFrameCompletes ==
    [][variant = "game" =>
          /\ (pc = "player_pass" /\ last'.death) =>
                 /\ current_game_state' = "GAME_OVER"
                 /\ pc' = "shot_pass"
                 /\ frames' = frames
          /\ (current_game_state = "GAME_OVER" /\ pc = "shot_pass") =>
                 /\ last'.op = "shot_pass"
                 /\ pc' = "power_ups"
                 /\ frames' = frames
                 /\ ShotOnTarget => (Len(last'.kills) > 0 /\ score' > score)
          /\ (current_game_state = "GAME_OVER" /\ pc = "power_ups") =>
                 /\ last'.op = "power_ups"
                 /\ pc' = "difficulty"
                 /\ frames' = frames
                 /\ IF PickupDue(pu_spawn_timer, dt)
                    THEN next_id' = next_id + 1
                    ELSE pu_spawn_timer' = pu_spawn_timer - dt
          /\ (current_game_state = "GAME_OVER" /\ pc = "difficulty") =>
                 /\ last'.op = "difficulty"
                 /\ pc' = "render"
                 /\ frames' = frames
                 /\ \/ difficulty_timer' = difficulty_timer + dt
                    \/ difficulty_level' = difficulty_level + 1
          /\ (current_game_state = "GAME_OVER" /\ pc = "update") =>
                 /\ deaths = 1
                 /\ pc' = "render"
                 /\ UNCHANGED SimState]_vars

\* the difficulty bookkeeping has just run in the frame of the death, after
\* a projectile x obstacle pass and a pickup-manager update that ran at
\* GAME_OVER too
C24_Witness ==
    /\ variant = "game"
    /\ current_game_state = "GAME_OVER"
    /\ deaths = 1
    /\ last.op = "difficulty"
    /\ last.from = "GAME_OVER"
    /\ pc = "render"
    /\ difficulty_timer > 0

\* ------------------------------------------------------------------------
\* AsteroidField.update
\* ------------------------------------------------------------------------
MaxSpawnCalls == 2

\* timers, rates and frame times below, on and above each other
SpawnTimers == {0, 300, 500}

SpawnRates == {ASTEROID_SPAWN_RATE, 500, SPAWN_RATE_FLOOR}

SpawnDts == {200, 300, 500, ASTEROID_SPAWN_RATE}

SpawnInit ==
    \E v \in {"game", "main"} :
    \E seed \in Seeds :
    \E timer \in SpawnTimers :
    \E rate \in SpawnRates :
        Bench(v, AddSprite(EmptyGroups([rng |-> NewRandom(seed)]),
                           [NewAsteroidField EXCEPT !.spawn_timer = timer,
                                                    !.spawn_rate = rate]),
              [op |-> "init", calls |-> 0, t |-> 0])

\* asteroid_field.update(dt), as updatable.update(dt) calls it
SpawnCall ==
    /\ pc = "call"
    /\ last.calls < MaxSpawnCalls
    /\ \E t \in SpawnDts :
           /\ SetWorld(UpdateGroup(World, updatable, t, {}))
           /\ last' = [op |-> "update", calls |-> last.calls + 1, t |-> t]
    /\ UNCHANGED benchFixed

SpawnNext == SpawnCall

SpawnSpec == SpawnInit /\ [][SpawnNext]_vars

\* the spawner of the scene
Field == sprites[1]

\* C25: on every spawner update, after the timer is advanced by dt: if
\* timer >= spawn_interval then exactly one obstacle is created and the
\* timer is reset to 0; otherwise no obstacle is created and the timer keeps
\* its advanced value.
C25_SpawnAtInterval ==
    [][last'.op = "update" =>
          LET timer == Field.spawn_timer + last'.t
          IN  IF timer >= Field.spawn_rate
              THEN /\ Cardinality(NewAsteroids) = 1
                   /\ sprites'[1].spawn_timer = 0
              ELSE /\ NewAsteroids = {}
                   /\ sprites'[1].spawn_timer = timer]_vars

\* ------------------------------------------------------------------------
\* The difficulty bookkeeping
\* ------------------------------------------------------------------------
\* C26: the spawner's spawn_interval is determined by the difficulty level
\* alone: over the steps of PLAYING frames in which difficulty_level does
\* not change, spawn_rate does not change, and it goes down only in a step
\* in which the level goes up.
C26_IntervalFollowsLevel ==
    [][(/\ current_game_state = "PLAYING"
        /\ current_game_state' = "PLAYING"
        /\ asteroid_field \in DOMAIN sprites
        /\ asteroid_field' = asteroid_field
        /\ asteroid_field \in DOMAIN sprites')
          => LET rate     == sprites[asteroid_field].spawn_rate
                 new_rate == sprites'[asteroid_field].spawn_rate
             IN  /\ difficulty_level' = difficulty_level => new_rate = rate
                 /\ new_rate < rate => difficulty_level' > difficulty_level
                 /\ new_rate <= rate]_vars

\* C27: in every reachable state the spawner's spawn_rate lies between the
\* floor (0.2 s) and the initial ASTEROID_SPAWN_RATE, both included; it is
\* never zero or negative, whatever the difficulty level.
C27_IntervalRange ==
    \A id \in DOMAIN sprites :
        sprites[id].cls = "AsteroidField" =>
            /\ SPAWN_RATE_FLOOR <= sprites[id].spawn_rate
            /\ sprites[id].spawn_rate <= ASTEROID_SPAWN_RATE
            /\ sprites[id].spawn_rate > 0

\* the bookkeeping has just left the rate on the floor, at a level for which
\* ASTEROID_SPAWN_RATE - level * step is still above the floor
C27_Witness ==
    /\ last.op = "difficulty"
    /\ asteroid_field \in DOMAIN sprites
    /\ sprites[asteroid_field].spawn_rate = SPAWN_RATE_FLOOR
    /\ ASTEROID_SPAWN_RATE - difficulty_level * SPAWN_RATE_STEP > SPAWN_RATE_FLOOR

\* C28: difficulty_level is always an integer >= 1; within a session it
\* never goes down (only the start of a new session puts it back to 1); the
\* difficulty bookkeeping of a frame raises it by exactly 1, and resets the
\* difficulty timer to 0, exactly when the timer advanced by the frame's dt
\* is >= DIFFICULTY_INCREASE_INTERVAL; no other step changes it, so a frame
\* gains at most one level.
C28_DifficultyLevel ==
    [][/\ difficulty_level \in Nat
       /\ difficulty_level >= 1
       /\ difficulty_level' >= 1
       /\ pc = "difficulty" =>
              IF difficulty_timer + dt >= DIFFICULTY_INCREASE_INTERVAL
              THEN /\ difficulty_level' = difficulty_level + 1
                   /\ difficulty_timer' = 0
              ELSE /\ difficulty_level' = difficulty_level
                   /\ difficulty_timer' = difficulty_timer + dt
       /\ pc # "difficulty" =>
              \/ difficulty_level' = difficulty_level
              \/ /\ current_game_state = "MENU"
                 /\ current_game_state' = "PLAYING"
                 /\ difficulty_level' = 1]_vars

\* two levels have been gained, the second by a frame as long as the
\* interval
C28_Witness ==
    /\ last.op = "difficulty"
    /\ difficulty_level = 3
    /\ difficulty_timer = 0
    /\ dt = DIFFICULTY_INCREASE_INTERVAL

\* ------------------------------------------------------------------------
\* Pickup placement (PowerUpManager.update, PowerUp.spawn_random)
\* ------------------------------------------------------------------------
MaxPlaceCalls == 2

\* random states whose candidates start next to the screen's corner too
PlaceSeeds == Seeds \cup {4}

\* ship positions: the origin of the screen, next to the corner candidate,
\* on the candidates of the tapes, and away from all of them
PlaceShips == {<<0, 0>>, <<60, 100>>, <<523, 360>>, <<640, 360>>, <<1000, 600>>}

\* times left on the spawn timer, and frame times
PlaceTimers == {0, 300, MIN_SPAWN_INTERVAL}

PlaceDts == {300, MIN_SPAWN_INTERVAL}

PlaceInit ==
    \E seed \in PlaceSeeds :
    \E at \in PlaceShips :
    \E timer \in PlaceTimers :
        LET w == AddSprite(EmptyGroups([rng |-> NewRandom(seed)]), NewPlayer(at[1], at[2]))
        IN  /\ variant = "game"
            /\ pc = "call"
            /\ running = TRUE
            /\ frames = 0
            /\ nevents = 0
            /\ dt = 0
            /\ current_game_state = "PLAYING"
            /\ sprites = w.sprites
            /\ next_id = w.next_id
            /\ updatable = w.updatable
            /\ drawable = w.drawable
            /\ asteroids = w.asteroids
            /\ shots = w.shots
            /\ power_ups = w.power_ups
            /\ rng = w.rng
            /\ player = 0
            /\ asteroid_field = 0
            /\ score = 0
            /\ difficulty_level = 1
            /\ difficulty_timer = 0
            /\ pu_spawn_timer = timer
            /\ floating_scores = << >>
            /\ deaths = 0
            /\ last = [op |-> "init", calls |-> 0, t |-> 0, due |-> FALSE, at |-> <<0, 0>>]

\* power_up_manager.update(dt, player); the report keeps the position
\* spawn_random gave the pickup it created
PlaceCall ==
    /\ pc = "call"
    /\ last.calls < MaxPlaceCalls
    /\ \E t \in PlaceDts :
           /\ SetWorld(PowerUpManagerUpdate(World, 1, pu_spawn_timer, t))
           /\ pu_spawn_timer' = IF PickupDue(pu_spawn_timer, t) THEN NextInterval(rng)
                                ELSE pu_spawn_timer - t
           /\ last' = [op |-> "update", calls |-> last.calls + 1, t |-> t,
                       due |-> PickupDue(pu_spawn_timer, t),
                       at |-> IF PickupDue(pu_spawn_timer, t)
                              THEN SpawnRandom(rng, sprites[1].x, sprites[1].y)
                              ELSE <<0, 0>>]
    /\ UNCHANGED <<variant, pc, running, frames, nevents, dt, current_game_state,
                   player, asteroid_field, score, difficulty_level, difficulty_timer,
                   floating_scores, deaths>>

PlaceNext == PlaceCall

PlaceSpec == PlaceInit /\ [][PlaceNext]_vars

\* the i-th candidate position the placement draws in this state
Candidate(i) == Peek(PosTape(rng.seed), rng.pos, i - 1)

\* candidate i is at least the minimum distance from the ship
FarFromShip(i) ==
    LET c == Candidate(i)
    IN  (c[1] - sprites[1].x) * (c[1] - sprites[1].x)
          + (c[2] - sprites[1].y) * (c[2] - sprites[1].y) >= MIN_DISTANCE * MIN_DISTANCE

\* C29: each time the pickup timer reaches <= 0 exactly one pickup is
\* created and the timer is reset to a value of [min, max]; the pickup is
\* placed on the screen, at the first of the SPAWN_TRIES candidates that is
\* at least MIN_DISTANCE from the ship or, when all of them are nearer, at
\* the fallback candidate drawn after them; and while the timer is above 0
\* no pickup is created.
C29_PickupPlacement ==
    [][last'.op = "update" =>
          IF pu_spawn_timer - last'.t <= 0
          THEN /\ next_id' = next_id + 1
               /\ MIN_SPAWN_INTERVAL <= pu_spawn_timer'
               /\ pu_spawn_timer' <= MAX_SPAWN_INTERVAL
               /\ 0 <= last'.at[1] /\ last'.at[1] <= SCREEN_WIDTH
               /\ 0 <= last'.at[2] /\ last'.at[2] <= SCREEN_HEIGHT
               /\ LET far == {i \in 1..SPAWN_TRIES : FarFromShip(i)}
                  IN  IF far = {} THEN last'.at = Candidate(SPAWN_TRIES + 1)
                      ELSE \E i \in far : /\ \A j \in far : i <= j
                                          /\ last'.at = Candidate(i)
          ELSE /\ next_id' = next_id
               /\ pu_spawn_timer' = pu_spawn_timer - last'.t]_vars

\* ------------------------------------------------------------------------
\* The life of a projectile (Shot.update, check_shot_asteroid_collisions)
\* ------------------------------------------------------------------------
\* frames are played until this much time has gone by
MaxShotTime == 2600

\* frame times that add up to less than, exactly and more than SHOT_LIFETIME
ShotDts == {300, 1700, SHOT_LIFETIME, 3900}

\* where the obstacle of the scene is: nowhere, or on the projectile's path
\* after 0.3 s or after 1.7 s
ShotTargets == {<< >>, <<250, 360>>, <<950, 360>>}

ShotInit ==
    \E seed \in Seeds :
    \E at \in ShotTargets :
    \E radius \in {ASTEROID_MIN_RADIUS, 2 * ASTEROID_MIN_RADIUS} :
        LET w0 == AddSprite(EmptyGroups([rng |-> NewRandom(seed)]),
                            NewShot(100, 360, PLAYER_SHOOT_SPEED, 0))
            w  == IF at = << >> THEN w0
                  ELSE AddSprite(w0, NewAsteroid(at[1], at[2], radius, 0, 0))
        IN  Bench("game", w, [op |-> "init", played |-> 0, kills |-> << >>])

\* one PLAYING frame of Game.update for the shot: updatable.update(dt), then
\* the projectile x obstacle pass
ShotFrame ==
    /\ pc = "call"
    /\ last.played < MaxShotTime
    /\ \E t \in ShotDts :
           LET w1 == UpdateGroup(World, updatable, t, {})
               st == ShotLoop(Pass(w1), w1.shots)
           IN  /\ SetWorld(st.w)
               /\ score' = st.score
               /\ floating_scores' = st.fs
               /\ last' = [op |-> "frame", played |-> last.played + t, kills |-> st.kills]
    /\ UNCHANGED <<variant, pc, running, frames, nevents, dt, current_game_state,
                   player, asteroid_field, difficulty_level, difficulty_timer,
                   pu_spawn_timer, deaths>>

ShotNext == ShotFrame

\* the frame loop goes on for as long as the game is PLAYING: weak fairness
\* of ShotFrame, written with the frame's guard (a frame always adds to
\* last.played, so it is enabled exactly while last.played < MaxShotTime)
ShotSpec ==
    /\ ShotInit
    /\ [][ShotNext]_vars
    /\ ([]<>(last.played >= MaxShotTime) \/ []<><<ShotFrame>>_vars)

C31_ObstacleRemoval ==
    [][/\ \A a \in Members(asteroids) :
              IF a \notin Members(asteroids') \/ a \notin DOMAIN sprites'
              THEN \/ last'.op = "start"
                   \/ /\ last'.op = "player_pass"
                      /\ last'.shield
                      /\ last'.hit = a
                   \/ /\ last'.op = "shot_pass"
                      /\ \E i \in 1..Len(last'.kills) : last'.kills[i].asteroid = a
              ELSE sprites'[a].radius = sprites[a].radius
       /\ (last'.op = "player_pass" /\ last'.death) => asteroids' = asteroids
       /\ last'.op \in {"update_objects", "power_ups", "difficulty", "tick",
                        "collisions", "keydown", "end_events", "skip_update", "quit"}
              => Members(asteroids) \subseteq Members(asteroids')]_vars

\* an obstacle has wrapped round the screen and is still in the world, at
\* a difficulty level above the first
C31_Witness ==
    /\ variant = "game"
    /\ last.op = "update_objects"
    /\ difficulty_level > 1
    /\ \E a \in Members(asteroids) :
           /\ sprites[a].radius < ASTEROID_MAX_RADIUS
           /\ sprites[a].vy > 0
           /\ sprites[a].y = -sprites[a].radius

\* ------------------------------------------------------------------------
\* Group membership
\* ------------------------------------------------------------------------
\* the typed group of a class of entities
TypedGroup(cls) ==
    CASE cls = "Asteroid" -> asteroids
      [] cls = "Shot"     -> shots
      [] cls = "PowerUp"  -> power_ups
      [] OTHER            -> << >>

Entities == {"Asteroid", "Shot", "PowerUp"}

\* no group lists an object twice
NoDuplicates(g) == Cardinality(Members(g)) = Len(g)

\* the groups list live objects only, every typed group holds objects of its
\* class, and an obstacle, projectile or pickup is in its typed group, in
\* updatable and in drawable, or in none of the three
MembershipConsistent ==
    /\ \A g \in {updatable, drawable, asteroids, shots, power_ups} :
           /\ Members(g) \subseteq DOMAIN sprites
           /\ NoDuplicates(g)
    /\ \A cls \in Entities :
           \A id \in Members(TypedGroup(cls)) : sprites[id].cls = cls
    /\ \A id \in DOMAIN sprites :
           sprites[id].cls \in Entities =>
               /\ id \in Members(TypedGroup(sprites[id].cls))
               /\ id \in Members(updatable)
               /\ id \in Members(drawable)

\* the ids in any group
Grouped ==
    Members(updatable) \cup Members(drawable) \cup Members(asteroids)
        \cup Members(shots) \cup Members(power_ups)

\* C32: collection membership is consistent in every reachable state: each
\* obstacle, projectile and pickup is in its typed collection if and only if
\* it is in updatable and in drawable, and the groups hold live objects
\* only; an entity a step destroys is in no group after the step, and within
\* a session an object that is gone stays gone (no group takes it back).
C32_GroupMembership ==
    [][/\ MembershipConsistent
       /\ MembershipConsistent'
       /\ \A id \in (DOMAIN sprites) \ (DOMAIN sprites') : id \notin Grouped'
       /\ last'.op # "start" =>
              /\ next_id' >= next_id
              /\ \A id \in 1..(next_id - 1) :
                     id \notin DOMAIN sprites =>
                         (id \notin DOMAIN sprites' /\ id \notin Grouped')]_vars

\* a pass has destroyed a projectile and split an obstacle; both are in no
\* group, and the two children are in all of theirs
C32_Witness ==
    /\ variant = "game"
    /\ last.op = "shot_pass"
    /\ \E i \in 1..Len(last.kills) :
           /\ last.kills[i].shot \notin Grouped
           /\ last.kills[i].asteroid \notin Grouped
           /\ Len(last.kills[i].children) = 2
    /\ Cardinality({a \in Members(asteroids) :
                       a \in Members(updatable) /\ a \in Members(drawable)}) >= 2

\* ------------------------------------------------------------------------
\* Score feedback
\* ------------------------------------------------------------------------
\* the feedback events a step has added to the list (the list only grows at
\* its end, in add_floating_score)
Emitted ==
    IF Len(floating_scores') > Len(floating_scores)
    THEN SubSeq(floating_scores', Len(floating_scores) + 1, Len(floating_scores'))
    ELSE << >>

RECURSIVE SumValues(_)
SumValues(es) == IF es = << >> THEN 0 ELSE Head(es).value + SumValues(Tail(es))

\* the obstacles a step's projectiles have destroyed
ShotDown ==
    {last'.kills[i].asteroid : i \in {j \in 1..Len(last'.kills) : last'.kills[j].asteroid_gone}}

\* C33: since the start of the session the number of score-feedback events
\* emitted equals the number of obstacles destroyed by projectiles, and the
\* values of those events add up to the score.  Step by step, in the game:
\* the session starts with score 0 and emits nothing; every step emits as
\* many events as its projectiles destroy obstacles, with values that add up
\* to what the step adds to the score; and the pass in which the shield
\* deflects an obstacle emits nothing and leaves the score alone.
C33_FeedbackMatchesScore ==
    [][variant = "game" =>
          /\ last'.op = "start" => (score' = 0 /\ Emitted = << >>)
          /\ last'.op # "start" =>
                 /\ Len(Emitted) = Cardinality(ShotDown)
                 /\ SumValues(Emitted) = score' - score
                 /\ last'.op # "shot_pass" => ShotDown = {}
          /\ last'.op \notin {"difficulty", "tick"} =>
                 Len(floating_scores') >= Len(floating_scores)
          /\ (last'.op = "player_pass" /\ last'.shield) =>
                 /\ floating_scores' = floating_scores
                 /\ score' = score]_vars

\* a pass has destroyed an obstacle in a session that had scored before;
\* the event it emitted is the last of the list and carries the award
C33_Witness ==
    /\ variant = "game"
    /\ last.op = "shot_pass"
    /\ Len(last.kills) = 1
    /\ last.kills[1].asteroid_gone
    /\ score > last.kills[1].award
    /\ Len(floating_scores) >= 1
    /\ floating_scores[Len(floating_scores)].value = last.kills[1].award

\* ------------------------------------------------------------------------
\* Screen bounds
\* ------------------------------------------------------------------------
Mobile == {"Player", "Asteroid", "Shot", "PowerUp"}

\* the centre of o is within a radius of the screen on both axes
InBounds(o) ==
    /\ -o.radius <= o.x /\ o.x <= SCREEN_WIDTH + o.radius
    /\ -o.radius <= o.y /\ o.y <= SCREEN_HEIGHT + o.radius

\* the mobile entities of both states that the step has moved
Moved ==
    {id \in (DOMAIN sprites) \cap (DOMAIN sprites') :
        /\ sprites[id].cls \in Mobile
        /\ sprites'[id].cls \in Mobile
        /\ <<sprites'[id].x, sprites'[id].y>> # <<sprites[id].x, sprites[id].y>>}

\* C34: at the end of every PLAYING frame every ship, obstacle, projectile
\* and pickup that has been updated has its centre within [-radius,
\* SCREEN_WIDTH + radius] x [-radius, SCREEN_HEIGHT + radius], whatever its
\* velocity and the frame's dt: updatable.update(dt) leaves every entity it
\* has updated there, so does the pickup manager's update, and within a
\* session no other step of the frame moves an entity.
C34_WithinBounds ==
    [][/\ last'.op = "update_objects" =>
              \A id \in Members(updatable) \cap (DOMAIN sprites') :
                  sprites'[id].cls \in Mobile => InBounds(sprites'[id])
       /\ last'.op = "power_ups" =>
              \A id \in Members(power_ups') : InBounds(sprites'[id])
       /\ last'.op \notin {"update_objects", "power_ups", "start"} => Moved = {}]_vars

\* ------------------------------------------------------------------------
\* Flags and effect map
\* ------------------------------------------------------------------------
\* C35: in every reachable state, for each effect kind the ship's behaviour
\* flag is true if and only if the kind is a key of the ship's effect map:
\* add_power_up, a refresh, the expiry in update_power_ups and
\* remove_power_up (the shield's consumption) keep the two in step.  (The
\* same predicate is an invariant of Spec, where pickups are collected, the
\* shield absorbs a hit and reset_game makes a new ship.)
C35_FlagsMatchMap ==
    \A id \in DOMAIN sprites :
        sprites[id].cls = "Player" =>
            /\ DOMAIN Effects(sprites[id]) \subseteq PowerUpType
            /\ \A k \in PowerUpType :
                   Flag(sprites[id], k) <=> k \in DOMAIN Effects(sprites[id])

\* an active effect has just been removed while another stays active and
\* the third is not active
C35_Witness ==
    /\ last.op = "remove"
    /\ last.kind \in DOMAIN Effects(last.before)
    /\ ~Flag(sprites[1], last.kind)
    /\ \E k \in PowerUpType \ {last.kind} : Flag(sprites[1], k)
    /\ \E k \in PowerUpType \ {last.kind} : ~Flag(sprites[1], k)

\* ------------------------------------------------------------------------
\* The fire rate (Player.update over consecutive frames)
\* ------------------------------------------------------------------------
MaxFireFrames == 5

\* frame times below and on the cooldown
FireDts == {100, 200, PLAYER_SHOOT_COOLDOWN}

\* since: the PLAYING frame time since the last volley (-1 before the first
\* one); paused: the time spent in PAUSED since then; gap: the value of
\* since at which the step fired (-1 when it did not fire, or fired first);
\* idle: the PAUSED time that went by in that gap
FireInit ==
    \E v \in {"game", "main"} :
        Bench(v, AddSprite(EmptyGroups([rng |-> NewRandom(1)]),
                           NewPlayer(SCREEN_WIDTH \div 2, SCREEN_HEIGHT \div 2)),
              [op |-> "init", frames |-> 0, t |-> 0, since |-> -1, paused |-> 0,
               gap |-> -1, idle |-> 0])

\* a PLAYING frame: updatable.update(dt) with the fire key held or not
FireFrame ==
    /\ pc = "call"
    /\ last.frames < MaxFireFrames
    /\ \E t \in FireDts : \E keys \in KeyChoices :
           LET w1    == UpdateGroup(World, updatable, t, keys)
               fired == w1.next_id > next_id
           IN  /\ SetWorld(w1)
               /\ last' = [op |-> "frame", frames |-> last.frames + 1, t |-> t,
                           since |-> IF fired THEN 0
                                     ELSE IF last.since >= 0 THEN last.since + t ELSE -1,
                           paused |-> IF fired THEN 0 ELSE last.paused,
                           gap |-> IF fired /\ last.since >= 0 THEN last.since + t ELSE -1,
                           idle |-> IF fired THEN last.paused ELSE 0]
    /\ UNCHANGED benchFixed

\* a PAUSED frame: Game.update does nothing (`pass`)
FirePaused ==
    /\ pc = "call"
    /\ last.frames < MaxFireFrames
    /\ \E t \in FireDts :
           last' = [op |-> "paused", frames |-> last.frames + 1, t |-> t,
                    since |-> last.since, paused |-> last.paused + t, gap |-> -1,
                    idle |-> 0]
    /\ UNCHANGED <<worldVars, benchFixed>>

FireNext == FireFrame \/ FirePaused

FireSpec == FireInit /\ [][FireNext]_vars

\* C36: the PLAYING frame time accumulated between two consecutive volleys
\* is at least PLAYER_SHOOT_COOLDOWN, whatever the frame times and whether
\* the fire key is held throughout or not; a PAUSED frame creates no shot
\* and its time does not run the cooldown down.
C36_FireRate ==
    [][/\ (last'.op = "frame" /\ next_id' > next_id /\ last.since >= 0)
              => last.since + last'.t >= PLAYER_SHOOT_COOLDOWN
       /\ last'.op = "paused" => UNCHANGED <<sprites, shots, next_id>>]_vars

\* the second volley came exactly one cooldown of PLAYING time after the
\* first, with a PAUSED frame in between
C36_Witness ==
    /\ last.op = "frame"
    /\ last.gap = PLAYER_SHOOT_COOLDOWN
    /\ last.since = 0
    /\ last.idle > 0
    /\ Len(shots) >= 2

\* ------------------------------------------------------------------------
\* One ship and one spawner across restarts
\* ------------------------------------------------------------------------
\* the objects of a class that updatable lists
Registered(cls) == {id \in Members(updatable) : sprites[id].cls = cls}

\* C37: after initialisation and across any number of restarts, exactly one
\* ship and exactly one obstacle spawner are registered in updatable, and
\* they are the ones the game holds as its player and its asteroid field (a
\* restart leaves no earlier ship or spawner registered).
C37_OneShipOneSpawner ==
    /\ NoDuplicates(updatable)
    /\ Registered("Player") = {player}
    /\ Registered("AsteroidField") = {asteroid_field}

\* a restart after a session in which obstacles were spawned and the ship
\* was destroyed: reset_game has run on groups that held that session's
\* objects, and the new session holds only its own ship and spawner
C37_Witness ==
    /\ last.op = "start"
    /\ frames >= 1
    /\ rng.spawn > 0
    /\ Members(updatable) = {player, asteroid_field}

\* ------------------------------------------------------------------------
\* ScreenShake (src/src/effects/screen_shake.py)
\* ------------------------------------------------------------------------
\* durations in ms, intensities in px, offsets in 1/1000 px
\* `self.decay = 5.0`, ms
SHAKE_DECAY == 5000

\* ScreenShake.__init__
NewScreenShake == [duration |-> 0, intensity |-> 0, offset_x |-> 0, offset_y |-> 0]

\* ScreenShake.start(intensity, duration): `if intensity > self.intensity`
ScreenShakeStart(s, intensity, duration) ==
    IF intensity > s.intensity
    THEN [s EXCEPT !.intensity = intensity, !.duration = duration]
    ELSE s

\* ScreenShake.update(dt); ux, uy: the two random.uniform(-1, 1) draws.
\* self.intensity is left as it is when the shake runs out
ScreenShakeUpdate(s, t, ux, uy) ==
    IF s.duration > 0
    THEN LET d  == s.duration - t
             ci == (s.intensity * d * 1000) \div SHAKE_DECAY
         IN  IF d <= 0
             THEN [s EXCEPT !.duration = 0, !.offset_x = 0, !.offset_y = 0]
             ELSE [s EXCEPT !.duration = d, !.offset_x = ux * ci, !.offset_y = uy * ci]
    ELSE [s EXCEPT !.offset_x = 0, !.offset_y = 0]

\* Game.handle_collision_event: the shake it asks for, <<intensity, duration>>
\* "player_death": start(intensity=15, duration=0.6)
DeathShake == <<15, 600>>
\* "asteroid_destroyed": start(min(10, size / 4), duration=0.3)
AsteroidShake(size) == <<Min(10, size \div 4), 300>>

\* start() and update() called on one ScreenShake
MaxShakeCalls == 5
ShakeRequests ==
    {DeathShake} \cup {AsteroidShake(k * ASTEROID_MIN_RADIUS) : k \in 1..ASTEROID_KINDS}
ShakeDts == {100, 300}
ShakeDraws == {-1, 0, 1}

\* last.shake: the ScreenShake; last.intensity, last.duration: the arguments
\* of the start() the step made (0 for an update)
ShakeInit ==
    Bench("game", EmptyGroups([rng |-> NewRandom(1)]),
          [op |-> "init", calls |-> 0, shake |-> NewScreenShake,
           intensity |-> 0, duration |-> 0])

ShakeStart ==
    /\ pc = "call"
    /\ last.calls < MaxShakeCalls
    /\ \E req \in ShakeRequests :
           last' = [op |-> "start", calls |-> last.calls + 1,
                    shake |-> ScreenShakeStart(last.shake, req[1], req[2]),
                    intensity |-> req[1], duration |-> req[2]]
    /\ UNCHANGED <<worldVars, benchFixed>>

ShakeUpdate ==
    /\ pc = "call"
    /\ last.calls < MaxShakeCalls
    /\ \E t \in ShakeDts : \E ux \in ShakeDraws : \E uy \in ShakeDraws :
           last' = [op |-> "update", calls |-> last.calls + 1,
                    shake |-> ScreenShakeUpdate(last.shake, t, ux, uy),
                    intensity |-> 0, duration |-> 0]
    /\ UNCHANGED <<worldVars, benchFixed>>

ShakeNext == ShakeStart \/ ShakeUpdate

ShakeSpec == ShakeInit /\ [][ShakeNext]_vars

\* the start() of the step began a new shake with its arguments
ShakeBegan ==
    /\ last'.shake.intensity = last'.intensity
    /\ last'.shake.duration = last'.duration

\* C38: start(intensity, duration) is refused only while a shake at least as
\* strong is still in progress: a start() made while no shake is active
\* (remaining duration 0) begins a new shake with the given intensity and
\* duration, whatever the intensity of earlier shakes, and a start() that
\* does not begin one is made while a shake of at least that intensity has
\* time left.
C38_StartWhenIdle ==
    [][last'.op = "start" =>
           /\ last.shake.duration = 0 => ShakeBegan
           /\ ~ShakeBegan => /\ last.shake.duration > 0
                             /\ last.shake.intensity >= last'.intensity]_vars

====
